---- MODULE Spec2Model ----
(***************************************************************************)
(* Codemnesis: structural extraction, dependency resolution and metrics /  *)
(* insight pipeline.  One module, several components; every component has  *)
(* its own initial predicate and next-state relation over the shared       *)
(* variables, the variables of the other components staying idle.          *)
(*                                                                         *)
(*   Spec / FairSpec  the main parse loop        (src/src/setup.py,        *)
(*                                                src/src/execute.py)      *)
(*   SpecResolve      the dependency resolver    (src/src/utils/maps.py)   *)
(*   SpecSloc         the SLOC counters          (src/src/utils/metrics.py)*)
(*   SpecNums         percentage / average       (src/src/tools/nums.py)   *)
(*   SpecHotspots     hotspots_modules           (src/src/renderers/       *)
(*                                                builders/insights.py)    *)
(*   SpecDeps         internal_dependencies      (insights.py)             *)
(*   SpecRisks        technical_risks/risk_impact (insights.py)            *)
(*   SpecSettings     Settings.__set_excluded    (src/common/settings.py)  *)
(*   SpecScanner      scanner_repository         (src/src/tools/scanner.py)*)
(*   SpecUsings       _collect_usings            (src/src/analyzers/       *)
(*   SpecXmlDoc       _collect_xml_doc            csharp.py)               *)
(*   SpecNormalize    _normalize_document        (src/src/analyzers/       *)
(*                                                python.py)               *)
(*   FairSpecNormalizeLoop  the loops of _normalize_document, step by step *)
(*   SpecCsharp       analyze_csharp             (csharp.py)               *)
(*   FairSpecBraces   the block scan of analyze_csharp, step by step       *)
(*   SpecSlocCsharp   _sloc_csharp on kept lines (metrics.py)              *)
(*   SpecDepMap       dependencies_map           (maps.py)                 *)
(*   SpecAggregate    dependencies_map and repository_metrics on one list  *)
(*                                                                         *)
(* Text is modelled as a sequence of one-character strings, so that split, *)
(* join, strip and substring search are computed and not assumed.          *)
(* Percentages are fixed-point integers in hundredths (2 decimals).        *)
(***************************************************************************)
EXTENDS Integers, Sequences, FiniteSets, TLC

VARIABLES
    pc,            \* control point of the active component
    files,         \* setup.py:37   files = list(scanner_repository(...))
    fails,         \* environment: the files on which analyze_file raises
    idx,           \* number of completed iterations of `for file in files`
    modules,       \* setup.py:40   modules = []  (list of ModuleInfo)
    attempted,     \* history: the files handed to analyze_file, in call order
    diagnostics,   \* history: number of error_trace calls
    stages,        \* history: the stages entered, in the order of their start
    EXCLUDED,      \* settings.py:27  the module-level set of excluded names
    walk,          \* scanner.py:35   os.walk: the directories still to be listed
    visited,       \* history: the directories os.walk has listed
    depth,         \* csharp.py:113  running brace depth of the block scan
    idx_local,     \* python.py:241  line index of the block loop
    consumed,      \* history: the line indexes the normalizer has consumed
    paths,         \* maps.py:35    lookup identifier -> set of module paths
    dep_map,       \* maps.py:82    the dependency graph being returned
    framework,     \* metrics.py:21 language selector of module_metrics
    count,         \* metrics.py:186/229  running SLOC count
    in_block,      \* metrics.py:230      inside a /* ... */ block
    loc,           \* number of lines of src consumed so far
    metrics,       \* metrics.py:46 the ModuleMetrics returned (loc, sloc)
    call,          \* the function last called and its arguments
    result,        \* what the last call returned or raised
    sloc,          \* insights.py:123 total SLOC handed to hotspots_modules
    module_stats,  \* insights.py:123 per-module statistics
    hotspots       \* insights.py:182 the list returned by hotspots_modules

vars == << pc, files, fails, idx, modules, attempted, diagnostics, stages,
           EXCLUDED, walk, visited, depth, idx_local, consumed, paths, dep_map,
           framework, count, in_block, loc, metrics, call, result,
           sloc, module_stats, hotspots >>

pipelineVars == << files, fails, idx, modules, attempted, diagnostics, stages >>
scanVars == << EXCLUDED, walk, visited >>
loopVars == << depth, idx_local, consumed >>
resolverVars == << paths, dep_map >>
slocVars == << framework, count, in_block, loc, metrics >>
numsVars == << call, result >>
hotspotVars == << sloc, module_stats, hotspots >>

(***************************************************************************)
(* Bounds of the model.                                                    *)
(***************************************************************************)
\* number of files the scanned tree may hold
NumFiles == 3

\* the files of the tree, named by their absolute path
Paths == { <<"p", i>> : i \in 1..NumFiles }

NoValue == [tag |-> "none"]

ScanIdle ==
    /\ EXCLUDED = {}
    /\ walk = << >>
    /\ visited = {}

LoopIdle ==
    /\ depth = 0
    /\ idx_local = 0
    /\ consumed = << >>

PipelineIdle ==
    /\ files = << >>
    /\ fails = {}
    /\ idx = 0
    /\ attempted = << >>
    /\ diagnostics = 0
    /\ stages = << >>
    /\ ScanIdle
    /\ LoopIdle

ResolverIdle ==
    /\ paths = << >>
    /\ dep_map = << >>

SlocIdle ==
    /\ framework = "none"
    /\ count = 0
    /\ in_block = FALSE
    /\ loc = 0
    /\ metrics = NoValue

NumsIdle ==
    /\ call = NoValue
    /\ result = NoValue

HotspotsIdle ==
    /\ sloc = 0
    /\ module_stats = << >>
    /\ hotspots = << >>

(***************************************************************************)
(* Helpers on finite sequences.                                            *)
(***************************************************************************)
Range(s) == { s[i] : i \in DOMAIN s }

\* every sequence without repetition over the elements of S
RECURSIVE Orderings(_)
Orderings(S) ==
    IF S = {} THEN { << >> }
    ELSE UNION { { <<x>> \o t : t \in Orderings(S \ {x}) } : x \in S }

(***************************************************************************)
(* The main loop: manage_implement (setup.py) / execute (execute.py).      *)
(***************************************************************************)
\* analyze_file(file): the ModuleInfo of a file whose parse succeeds
AnalyzeFile(file) == [path |-> file, imports |-> {}]

InitPipeline ==
    /\ pc = "scan"
    /\ files = << >>
    /\ fails \in SUBSET Paths
    /\ idx = 0
    /\ modules = << >>
    /\ attempted = << >>
    /\ diagnostics = 0
    /\ stages = << >>
    /\ ScanIdle
    /\ LoopIdle
    /\ ResolverIdle /\ SlocIdle /\ NumsIdle /\ HotspotsIdle

\* files = list(scanner(...)); modules = []
\* the scan is materialised as a list of distinct paths, in walk order
Scan ==
    /\ pc = "scan"
    /\ \E tree \in SUBSET Paths : files' \in Orderings(tree)
    /\ modules' = << >>
    /\ idx' = 0
    /\ pc' = "parse"
    /\ stages' = Append(stages, "scan")
    /\ UNCHANGED << fails, attempted, diagnostics >>
    /\ UNCHANGED << scanVars, loopVars, resolverVars, slocVars, numsVars, hotspotVars >>

\* one iteration of the loop whose analyze_file returns
ParseOk ==
    /\ pc = "parse"
    /\ idx < Len(files)
    /\ files[idx + 1] \notin fails
    /\ attempted' = Append(attempted, files[idx + 1])
    /\ stages' = Append(stages, "parse")
    /\ modules' = Append(modules, AnalyzeFile(files[idx + 1]))
    /\ idx' = idx + 1
    /\ UNCHANGED << pc, files, fails, diagnostics >>
    /\ UNCHANGED << scanVars, loopVars, resolverVars, slocVars, numsVars, hotspotVars >>

\* faulty variant: no except clause, the exception leaves the loop and the run
ParseFail_Reraise ==
    /\ pc = "parse"
    /\ idx < Len(files)
    /\ files[idx + 1] \in fails
    /\ attempted' = Append(attempted, files[idx + 1])
    /\ stages' = Append(stages, "parse")
    /\ pc' = "aborted"
    /\ UNCHANGED << files, fails, idx, modules, diagnostics >>
    /\ UNCHANGED << scanVars, loopVars, resolverVars, slocVars, numsVars, hotspotVars >>

\* faulty variant: the handler records an error-marked entry for the failed file
ParseFail_Marked ==
    /\ pc = "parse"
    /\ idx < Len(files)
    /\ files[idx + 1] \in fails
    /\ attempted' = Append(attempted, files[idx + 1])
    /\ stages' = Append(stages, "parse")
    /\ modules' = Append(modules, [path |-> files[idx + 1], imports |-> {}])
    /\ diagnostics' = diagnostics + 1
    /\ idx' = idx + 1
    /\ UNCHANGED << pc, files, fails >>
    /\ UNCHANGED << scanVars, loopVars, resolverVars, slocVars, numsVars, hotspotVars >>

\* faulty variant: the handler logs and leaves the loop, the remaining files
\* are not parsed
ParseFail_Break ==
    /\ pc = "parse"
    /\ idx < Len(files)
    /\ files[idx + 1] \in fails
    /\ attempted' = Append(attempted, files[idx + 1])
    /\ stages' = Append(stages, "parse")
    /\ diagnostics' = diagnostics + 1
    /\ pc' = "render"
    /\ UNCHANGED << files, fails, idx, modules >>
    /\ UNCHANGED << scanVars, loopVars, resolverVars, slocVars, numsVars, hotspotVars >>

\* one iteration of the loop whose analyze_file raises an Exception:
\* the except clause logs through error_trace and the loop goes on
ParseFail ==
    /\ pc = "parse"
    /\ idx < Len(files)
    /\ files[idx + 1] \in fails
    /\ attempted' = Append(attempted, files[idx + 1])
    /\ stages' = Append(stages, "parse")
    /\ diagnostics' = diagnostics + 1
    /\ idx' = idx + 1
    /\ UNCHANGED << pc, files, fails, modules >>
    /\ UNCHANGED << scanVars, loopVars, resolverVars, slocVars, numsVars, hotspotVars >>

\* the for loop is exhausted: logger.info("Generating README ...")
EndLoop ==
    /\ pc = "parse"
    /\ idx = Len(files)
    /\ pc' = "render"
    /\ UNCHANGED pipelineVars
    /\ UNCHANGED << scanVars, loopVars, resolverVars, slocVars, numsVars, hotspotVars >>

\* ReadmeHanler.render(modules, ...) and ReadmeHanler.write(...)
Render ==
    /\ pc = "render"
    /\ pc' = "done"
    /\ UNCHANGED pipelineVars
    /\ UNCHANGED << scanVars, loopVars, resolverVars, slocVars, numsVars, hotspotVars >>

(***************************************************************************)
(* Text: a string is a sequence of one-character strings.                  *)
(***************************************************************************)
\* str.split('.'): the pieces between the dots, in order (never empty)
RECURSIVE SplitDots(_)
SplitDots(s) ==
    IF \A i \in DOMAIN s : s[i] # "."
    THEN << s >>
    ELSE LET k == CHOOSE i \in DOMAIN s :
                      /\ s[i] = "."
                      /\ \A j \in 1..(i - 1) : s[j] # "."
         IN  << SubSeq(s, 1, k - 1) >> \o SplitDots(SubSeq(s, k + 1, Len(s)))

\* '.'.join(parts)
RECURSIVE JoinDots(_)
JoinDots(parts) ==
    IF parts = << >> THEN << >>
    ELSE IF Len(parts) = 1 THEN parts[1]
         ELSE parts[1] \o << "." >> \o JoinDots(Tail(parts))

(***************************************************************************)
(* The dependency resolver: _resolve_imports (maps.py).                    *)
(***************************************************************************)
\* longest dotted identifier, in segments
MaxSegs == 2
\* largest number of identifiers a lookup holds
MaxKeys == 2
\* largest number of imports a module declares
MaxImports == 1

\* root package names and the name used for nested segments
RootNames == { <<"a">>, <<"b">> }
NestedName == <<"a">>

\* dotted identifiers: a root name followed by up to MaxSegs - 1 nested names
Idents ==
    { JoinDots(<< r >> \o [i \in 1..n |-> NestedName]) :
        r \in RootNames, n \in 0..(MaxSegs - 1) }

\* the paths of the modules handed to the resolver
ModulePaths == { <<"p", 1>>, <<"p", 2>> }

\* subsets of S with at most n elements
SubsetsUpTo(S, n) == { T \in SUBSET S : Cardinality(T) <= n }

\* module lists: distinct paths, each module with its (deduplicated) imports
ModuleLists ==
    UNION { { [i \in DOMAIN ord |-> [path |-> ord[i], imports |-> imps[i]]] :
                imps \in [DOMAIN ord -> SubsetsUpTo(Idents, MaxImports)] } :
            ord \in UNION { Orderings(T) : T \in SUBSET ModulePaths } }

\* lookups: identifier -> non-empty set of providing paths
Lookups ==
    UNION { [keys -> (SUBSET ModulePaths) \ {{}}] : keys \in SubsetsUpTo(Idents, MaxKeys) }

\* maps.py:88-94  candidates from the complete import to its shortest form
RECURSIVE CandidatesOf(_)
CandidatesOf(parts) ==
    IF parts = << >> THEN << >>
    ELSE << JoinDots(parts) >> \o CandidatesOf(SubSeq(parts, 1, Len(parts) - 1))

Candidates(imp) == CandidatesOf(SplitDots(imp))

\* faulty variant: the scan goes from the shortest candidate to the longest
RECURSIVE FirstHit_ShortestFirst(_, _)
FirstHit_ShortestFirst(candidates, lookup) ==
    IF candidates = << >> THEN {}
    ELSE IF candidates[Len(candidates)] \in DOMAIN lookup
         THEN lookup[candidates[Len(candidates)]]
         ELSE FirstHit_ShortestFirst(SubSeq(candidates, 1, Len(candidates) - 1), lookup)

\* maps.py:96-101  target_paths of the first candidate present in the lookup
RECURSIVE FirstHit(_, _)
FirstHit(candidates, lookup) ==
    IF candidates = << >> THEN {}
    ELSE IF candidates[1] \in DOMAIN lookup THEN lookup[candidates[1]]
         ELSE FirstHit(Tail(candidates), lookup)

\* faulty variant: the source module is not filtered out of its own targets
ValidTargets_KeepSelf(src, target_paths) ==
    { path \in target_paths : path # << >> }

\* maps.py:104-106  `if path and path != src`
ValidTargets(src, target_paths) ==
    { path \in target_paths : path # << >> /\ path # src }

\* maps.py:84-106  the edges one module contributes
ModuleEdges(module, lookup) ==
    UNION { ValidTargets(module.path, FirstHit(Candidates(imp), lookup)) :
            imp \in module.imports }

\* faulty variant: only modules that declare an import get an entry
InitialDepMap_Lazy(mods) ==
    [ p \in { mods[i].path : i \in { j \in DOMAIN mods : mods[j].imports # {} } } |-> {} ]

\* maps.py:82  dep_map = {module.path: set() for module in modules}
InitialDepMap(mods) ==
    [ p \in { mods[i].path : i \in DOMAIN mods } |-> {} ]

\* maps.py:84-106  the loop over the modules, from module i on
RECURSIVE ResolveFrom(_, _, _, _)
ResolveFrom(i, mods, lookup, dm) ==
    IF i > Len(mods) THEN dm
    ELSE LET src == mods[i].path
             edges == ModuleEdges(mods[i], lookup)
             dm2 == [dm EXCEPT ![src] = @ \cup edges]
         IN  ResolveFrom(i + 1, mods, lookup, dm2)

\* maps.py:55-108  _resolve_imports(modules, paths)
ResolveImports(mods, lookup) == ResolveFrom(1, mods, lookup, InitialDepMap(mods))

InitResolve ==
    /\ pc = "resolve"
    /\ modules \in ModuleLists
    /\ paths \in Lookups
    /\ dep_map = << >>
    /\ PipelineIdle /\ SlocIdle /\ NumsIdle /\ HotspotsIdle

\* dep_map = _resolve_imports(modules, paths)
Resolve ==
    /\ pc = "resolve"
    /\ dep_map' = ResolveImports(modules, paths)
    /\ pc' = "resolved"
    /\ UNCHANGED << scanVars, loopVars, paths, pipelineVars, slocVars, numsVars, hotspotVars >>

NextResolve == Resolve

SpecResolve == InitResolve /\ [][NextResolve]_vars

\* the paths of the module list
ModulePathSet == { modules[i].path : i \in DOMAIN modules }

\* the prefixes of an import that end at a dot boundary, the import included
DottedPrefixes(imp) ==
    { SubSeq(imp, 1, k) : k \in { j \in 0..Len(imp) : j = Len(imp) \/ imp[j + 1] = "." } }

\* the paths the longest prefix of imp present in the lookup maps to
LongestPrefixPaths(imp) ==
    LET present == DottedPrefixes(imp) \cap DOMAIN paths
    IN  IF present = {} THEN {}
        ELSE paths[CHOOSE q \in present : \A r \in present : Len(r) <= Len(q)]

\* C3: the graph returned by the resolver has no self-edge, also when an
\* import resolves to an identifier the importing module provides itself.
C3_NoSelfEdge ==
    pc = "resolved" => \A src \in DOMAIN dep_map : src \notin dep_map[src]

\* a module imports an identifier that the lookup maps to the module itself
C3_Witness ==
    /\ pc = "resolved"
    /\ \E i \in DOMAIN modules : \E imp \in modules[i].imports :
          /\ imp \in DOMAIN paths
          /\ modules[i].path \in paths[imp]

\* C4: the keys of the returned graph are exactly the paths of the module
\* list, modules without (resolved) imports included.
C4_KeysAreModulePaths ==
    pc = "resolved" => DOMAIN dep_map = ModulePathSet

\* one module without imports and one with a resolved import
C4_Witness ==
    /\ pc = "resolved"
    /\ \E i, j \in DOMAIN modules :
          /\ modules[i].imports = {}
          /\ dep_map[modules[i].path] = {}
          /\ dep_map[modules[j].path] # {}

\* C5: the targets of a module are, import by import, the paths mapped to
\* the longest dotted prefix of the import present in the lookup, without
\* the module itself; shorter prefixes and absent imports add nothing.
C5_LongestPrefixWins ==
    pc = "resolved" =>
        \A i \in DOMAIN modules :
            dep_map[modules[i].path] =
                UNION { LongestPrefixPaths(imp) \ { modules[i].path } :
                        imp \in modules[i].imports }

\* an import whose full name and whose shorter prefix are both in the lookup,
\* mapped to different targets, has produced an edge
C5_Witness ==
    /\ pc = "resolved"
    /\ \E i \in DOMAIN modules : \E imp \in modules[i].imports :
          /\ imp \in DOMAIN paths
          /\ \E q \in (DottedPrefixes(imp) \cap DOMAIN paths) \ {imp} :
                paths[q] \ { modules[i].path } # paths[imp] \ { modules[i].path }
          /\ dep_map[modules[i].path] # {}

(***************************************************************************)
(* Substring helpers of the SLOC counters (metrics.py).                    *)
(***************************************************************************)
\* str.strip(): leading and trailing blanks removed
RECURSIVE Strip(_)
Strip(s) ==
    IF s = << >> THEN s
    ELSE IF s[1] = " " THEN Strip(Tail(s))
    ELSE IF s[Len(s)] = " " THEN Strip(SubSeq(s, 1, Len(s) - 1))
    ELSE s

\* str.startswith(prefix)
StartsWith(s, prefix) ==
    /\ Len(s) >= Len(prefix)
    /\ SubSeq(s, 1, Len(prefix)) = prefix

\* the positions at which pat occurs in s
Occurrences(s, pat) ==
    { i \in 1..(Len(s) - Len(pat) + 1) : SubSeq(s, i, i + Len(pat) - 1) = pat }

\* `pat in s`
Contains(s, pat) == Occurrences(s, pat) # {}

\* position of the first occurrence of pat in s
FirstAt(s, pat) ==
    CHOOSE i \in Occurrences(s, pat) : \A j \in Occurrences(s, pat) : i <= j

\* s.split(pat, 1)[0] and s.split(pat, 1)[1], for pat in s
Before(s, pat) == SubSeq(s, 1, FirstAt(s, pat) - 1)
After(s, pat) == SubSeq(s, FirstAt(s, pat) + Len(pat), Len(s))

\* every string of at most n characters over the alphabet C
StringsUpTo(C, n) == UNION { [1..k -> C] : k \in 0..n }

(***************************************************************************)
(* module_metrics, _sloc_python, _sloc_csharp (metrics.py).  src is read   *)
(* through src.splitlines() both for loc and for sloc, so it is given as   *)
(* its lines, one loop iteration per step.                                 *)
(***************************************************************************)
\* number of lines of a source text
MaxLines == 4
\* number of characters of a line
MaxLineLen == 6

LineComment == << "/", "/" >>
BlockOpen == << "/", "*" >>
BlockClose == << "*", "/" >>
Hash == << "#" >>

\* per language, the characters its rule tells apart ("x": any other
\* non-blank character)
PythonLines == StringsUpTo({ "x", " ", "#" }, MaxLineLen)
CsharpLines == StringsUpTo({ "x", " ", "/", "*" }, MaxLineLen)
OtherLines == StringsUpTo({ "x", " " }, MaxLineLen)

\* metrics.py:187-195  one iteration of the loop of _sloc_python
SlocPythonLine(line, cnt) ==
    LET stripped == Strip(line)
    IN  IF stripped = << >> THEN cnt
        ELSE IF StartsWith(stripped, Hash) THEN cnt
        ELSE cnt + 1

\* metrics.py:44  the fallback: only empty lines are ignored
SlocOtherLine(line, cnt) ==
    IF Strip(line) # << >> THEN cnt + 1 ELSE cnt

\* metrics.py:252-279  the iteration from "Line comments" on, outside a block
SlocCsharpCode(stripped, cnt) ==
    IF StartsWith(stripped, LineComment)
    THEN [count |-> cnt, in_block |-> FALSE]
    ELSE IF Contains(stripped, BlockOpen)
    THEN LET before == Strip(Before(stripped, BlockOpen))
             after == After(stripped, BlockOpen)
             c1 == IF before # << >> THEN cnt + 1 ELSE cnt
         IN  IF Contains(after, BlockClose)
             THEN LET after2 == Strip(After(after, BlockClose))
                  IN  [count |-> IF after2 # << >> THEN c1 + 1 ELSE c1,
                       in_block |-> FALSE]
             ELSE [count |-> c1, in_block |-> TRUE]
    ELSE [count |-> cnt + 1, in_block |-> FALSE]

\* metrics.py:232-279  one iteration of the loop of _sloc_csharp
SlocCsharpLine(line, cnt, blk) ==
    LET stripped == Strip(line)
    IN  IF stripped = << >> THEN [count |-> cnt, in_block |-> blk]
        ELSE IF blk
        THEN IF Contains(stripped, BlockClose)
             THEN LET after == Strip(After(stripped, BlockClose))
                  IN  IF after = << >>
                      THEN [count |-> cnt, in_block |-> FALSE]
                      ELSE SlocCsharpCode(after, cnt)
             ELSE [count |-> cnt, in_block |-> TRUE]
        ELSE SlocCsharpCode(stripped, cnt)

InitSloc ==
    /\ pc = "count"
    /\ framework \in { "python", "csharp", "other" }
    /\ count = 0
    /\ in_block = FALSE
    /\ loc = 0
    /\ metrics = NoValue
    /\ modules = << >>
    /\ PipelineIdle /\ ResolverIdle /\ NumsIdle /\ HotspotsIdle

\* _sloc_python consumes the next line of src
PythonLine ==
    /\ pc = "count"
    /\ framework = "python"
    /\ loc < MaxLines
    /\ \E line \in PythonLines : count' = SlocPythonLine(line, count)
    /\ loc' = loc + 1
    /\ UNCHANGED << pc, framework, in_block, metrics >>
    /\ UNCHANGED << scanVars, loopVars, pipelineVars, resolverVars, numsVars, hotspotVars >>

\* _sloc_csharp consumes the next line of src
CsharpLine ==
    /\ pc = "count"
    /\ framework = "csharp"
    /\ loc < MaxLines
    /\ \E line \in CsharpLines :
          LET r == SlocCsharpLine(line, count, in_block)
          IN  /\ count' = r.count
              /\ in_block' = r.in_block
    /\ loc' = loc + 1
    /\ UNCHANGED << pc, framework, metrics >>
    /\ UNCHANGED << scanVars, loopVars, pipelineVars, resolverVars, numsVars, hotspotVars >>

\* the fallback rule consumes the next line of src
OtherLine ==
    /\ pc = "count"
    /\ framework = "other"
    /\ loc < MaxLines
    /\ \E line \in OtherLines : count' = SlocOtherLine(line, count)
    /\ loc' = loc + 1
    /\ UNCHANGED << pc, framework, in_block, metrics >>
    /\ UNCHANGED << scanVars, loopVars, pipelineVars, resolverVars, numsVars, hotspotVars >>

\* metrics.py:46-52  return ModuleMetrics(loc=len(src.splitlines()), sloc=sloc, ...)
ReturnMetrics ==
    /\ pc = "count"
    /\ metrics' = [loc |-> loc, sloc |-> count]
    /\ pc' = "returned"
    /\ UNCHANGED << framework, count, in_block, loc >>
    /\ UNCHANGED << scanVars, loopVars, pipelineVars, resolverVars, numsVars, hotspotVars >>

NextSloc == PythonLine \/ CsharpLine \/ OtherLine \/ ReturnMetrics

SpecSloc == InitSloc /\ [][NextSloc]_vars

\* C6: for every source text and language rule, module_metrics returns
\* sloc <= loc: no line is counted more than once as a meaningful line.
C6_SlocAtMostLoc ==
    pc = "returned" => metrics.sloc <= metrics.loc

(***************************************************************************)
(* percentage and average (nums.py).  A returned number is the fraction    *)
(* num / den; round(x, d) keeps d decimals, so den = 10^d, and Python      *)
(* rounds exact ties to the even neighbour.                                *)
(***************************************************************************)
\* largest magnitude of a number handed to percentage / average
MaxNum == 4
\* longest list handed to average
MaxItems == 2

\* nums.py:14  decimals: int = 2
PctDecimals == 2
\* nums.py:34  (part / total) * 100
Hundred == 100

NumRange == (0 - MaxNum)..MaxNum

\* round(n / d) to the nearest integer, ties to even (d # 0).  This is what
\* Python's round() returns whenever n / d is not an exact tie or the float
\* holds the tie exactly; the number ranges of this model hold no other tie.
RoundHalfEven(n, d) ==
    LET nn == IF d < 0 THEN 0 - n ELSE n
        dd == IF d < 0 THEN 0 - d ELSE d
        r == nn % dd
        q == (nn - r) \div dd
    IN  IF 2 * r < dd THEN q
        ELSE IF 2 * r > dd THEN q + 1
        ELSE IF q % 2 = 0 THEN q ELSE q + 1

Returns(n, d) == [kind |-> "value", err |-> "", msg |-> "", num |-> n, den |-> d]
Raises(e, m) == [kind |-> "raise", err |-> e, msg |-> m, num |-> 0, den |-> 1]

\* faulty variant: the zero-denominator guard is missing
Percentage_NoZeroGuard(part, total) ==
    IF total = 0 THEN Raises("ZeroDivisionError", "division by zero")
    ELSE Returns(RoundHalfEven(part * Hundred * (10 ^ PctDecimals), total), 10 ^ PctDecimals)

\* nums.py:14-35  percentage(part, total), decimals left at its default
Percentage(part, total) ==
    IF total = 0 THEN Returns(total, 1)
    ELSE Returns(RoundHalfEven(part * Hundred * (10 ^ PctDecimals), total), 10 ^ PctDecimals)

\* sum(values)
RECURSIVE Sum(_)
Sum(values) == IF values = << >> THEN 0 ELSE values[1] + Sum(Tail(values))

\* nums.py:72-75  a scalar becomes a one-element list
ValuesOf(items) == IF items.scalar THEN << items.val >> ELSE items.vals

\* nums.py:80-92  the part of average after the emptiness check
AverageOf(values, divider, round_off, decimals) ==
    IF divider # << >> /\ divider[1] <= 0
    THEN Raises("ValueError", "divisor")
    ELSE LET effective == IF divider # << >> THEN divider[1] ELSE Len(values)
         IN  IF effective = 0 THEN Raises("ZeroDivisionError", "division by zero")
             ELSE IF round_off
             THEN IF decimals < 0 THEN Raises("ValueError", "decimals")
                  ELSE Returns(RoundHalfEven(Sum(values) * (10 ^ decimals), effective),
                               10 ^ decimals)
             ELSE Returns(Sum(values), effective)

\* faulty variant: emptiness is not checked (the divisor check comes first)
Average_NoEmptyCheck(items, divider, round_off, decimals) ==
    AverageOf(ValuesOf(items), divider, round_off, decimals)

\* nums.py:37-92  average(items, divider=, round_off=, decimals=)
Average(items, divider, round_off, decimals) ==
    IF ValuesOf(items) = << >>
    THEN Raises("ValueError", "empty")
    ELSE AverageOf(ValuesOf(items), divider, round_off, decimals)

\* the arguments of average: a scalar or a list; divider None (<< >>) or << n >>
ItemArgs ==
    { [scalar |-> TRUE, val |-> n] : n \in 0..MaxNum }
    \cup { [scalar |-> FALSE, vals |-> v] : v \in UNION { [1..k -> 0..MaxNum] : k \in 0..MaxItems } }
DividerArgs == { << >> } \cup { << n >> : n \in (0 - 1)..MaxNum }
DecimalArgs == (0 - 1)..PctDecimals

InitNums ==
    /\ pc = "idle"
    /\ call = NoValue
    /\ result = NoValue
    /\ modules = << >>
    /\ PipelineIdle /\ ResolverIdle /\ SlocIdle /\ HotspotsIdle

\* a call of percentage(part, total)
CallPercentage ==
    /\ pc = "idle"
    /\ \E part \in NumRange, total \in NumRange :
          /\ call' = [fn |-> "percentage", part |-> part, total |-> total]
          /\ result' = Percentage(part, total)
    /\ pc' = "called"
    /\ UNCHANGED << scanVars, loopVars, pipelineVars, resolverVars, slocVars, hotspotVars >>

\* a call of average(items, divider=..., round_off=..., decimals=...)
CallAverage ==
    /\ pc = "idle"
    /\ \E items \in ItemArgs, divider \in DividerArgs,
          round_off \in BOOLEAN, decimals \in DecimalArgs :
          /\ call' = [fn |-> "average", items |-> items, divider |-> divider,
                      round_off |-> round_off, decimals |-> decimals]
          /\ result' = Average(items, divider, round_off, decimals)
    /\ pc' = "called"
    /\ UNCHANGED << scanVars, loopVars, pipelineVars, resolverVars, slocVars, hotspotVars >>

NextNums == CallPercentage \/ CallAverage

SpecNums == InitNums /\ [][NextNums]_vars

CalledPercentage == pc = "called" /\ call.fn = "percentage"
CalledAverage == pc = "called" /\ call.fn = "average"

\* C7: percentage(x, 0) returns 0 for any x without raising,
\* percentage(0, n) returns 0 and percentage(n, n) returns 100 for n > 0.
C7_PercentageEdges ==
    CalledPercentage =>
        /\ call.total = 0 => result.kind = "value" /\ result.num = 0
        /\ (call.part = 0 /\ call.total > 0) => result.kind = "value" /\ result.num = 0
        /\ (call.total > 0 /\ call.part = call.total) =>
              result.kind = "value" /\ result.num = Hundred * result.den

\* percentage was called with a non-zero part and a zero total
C7_Witness ==
    /\ CalledPercentage
    /\ call.total = 0
    /\ call.part # 0
    /\ result.kind = "value"

\* C8: average of an empty list always raises ValueError, whatever the other
\* arguments; a scalar is averaged as a one-element list, never as empty.
C8_AverageEmptyRaises ==
    CalledAverage =>
        /\ (~call.items.scalar /\ call.items.vals = << >>) =>
              result.kind = "raise" /\ result.err = "ValueError"
        /\ call.items.scalar => ~(result.kind = "raise" /\ result.msg = "empty")
        /\ (call.items.scalar /\ call.divider = << >> /\ ~call.round_off) =>
              result = Returns(call.items.val, 1)

\* average was called with an empty list and an explicit positive divider
C8_Witness ==
    /\ CalledAverage
    /\ ~call.items.scalar
    /\ call.items.vals = << >>
    /\ call.divider # << >>
    /\ call.divider[1] > 0
    /\ result.kind = "raise"

(***************************************************************************)
(* hotspots_modules (insights.py).                                         *)
(***************************************************************************)
\* longest list of per-module statistics
MaxStats == 2
\* total SLOC of a large repository, where neighbouring shares round alike
BigSloc == 25000

\* insights.py:157  sloc_percentage >= 20
VERY_LARGE_SHARE == 20
\* insights.py:159  sloc_percentage >= 10
RELEVANT_SHARE == 10
\* insights.py:164  stats['n_methods'] >= 15
MANY_METHODS == 15
\* insights.py:168  doc_percentage <= 50
LOW_DOC == 50

\* total SLOC values: empty, small and large repository
SlocTotals == { 0, MaxNum, BigSloc }
\* module SLOC values: none, one line, just under and exactly a tenth of BigSloc
SlocValues == { 0, 1, (BigSloc \div RELEVANT_SHARE) - 1, BigSloc \div RELEVANT_SHARE }
\* method counts on both sides of the threshold
MethodValues == { MANY_METHODS - 1, MANY_METHODS }
\* << total_items, documented_items >>: nothing to document, 0%, 50%, 100%
DocCounts == { <<0, 0>>, <<1, 0>>, <<2, 1>>, <<1, 1>> }

\* the module_stats record of the i-th module (metrics.py:147-155)
StatsRecords(i) ==
    { [name |-> <<"m", i>>, sloc |-> s, n_methods |-> m,
       total_items |-> d[1], documented_items |-> d[2]] :
        s \in SlocValues, m \in MethodValues, d \in DocCounts }

StatsLists ==
    UNION { { st \in [1..k -> UNION { StatsRecords(i) : i \in 1..k }] :
                \A i \in 1..k : st[i].name = <<"m", i>> } : k \in 0..MaxStats }

\* x >= t for a returned number x = num / den and an integer threshold t
AtLeast(x, t) == x.num >= t * x.den
\* x <= t
AtMost(x, t) == x.num <= t * x.den
\* x < y and x = y for returned numbers
NumLess(x, y) == x.num * y.den < y.num * x.den
NumEqual(x, y) == x.num * y.den = y.num * x.den

\* faulty variant: low documentation is tested with < instead of <=
HotspotComment_StrictDoc(total, stats) ==
    LET sloc_percentage == Percentage(stats.sloc, total)
        doc_percentage == IF stats.total_items # 0
                          THEN Percentage(stats.documented_items, stats.total_items)
                          ELSE Returns(0, 1)
    IN  (IF AtLeast(sloc_percentage, VERY_LARGE_SHARE) THEN << "very_large" >>
         ELSE IF AtLeast(sloc_percentage, RELEVANT_SHARE) THEN << "relevant_size" >>
         ELSE << >>)
        \o (IF stats.n_methods >= MANY_METHODS THEN << "many_methods" >> ELSE << >>)
        \o (IF stats.total_items # 0 /\ ~AtLeast(doc_percentage, LOW_DOC)
            THEN << "low_documentation" >> ELSE << >>)

\* insights.py:154-169  the comments of one module
HotspotComment(total, stats) ==
    LET sloc_percentage == Percentage(stats.sloc, total)
        doc_percentage == IF stats.total_items # 0
                          THEN Percentage(stats.documented_items, stats.total_items)
                          ELSE Returns(0, 1)
    IN  (IF AtLeast(sloc_percentage, VERY_LARGE_SHARE) THEN << "very_large" >>
         ELSE IF AtLeast(sloc_percentage, RELEVANT_SHARE) THEN << "relevant_size" >>
         ELSE << >>)
        \o (IF stats.n_methods >= MANY_METHODS THEN << "many_methods" >> ELSE << >>)
        \o (IF stats.total_items # 0 /\ AtMost(doc_percentage, LOW_DOC)
            THEN << "low_documentation" >> ELSE << >>)

\* insights.py:174-180  the candidate entry of one module
\* ('percent' is num_percent printed with a percent sign)
Candidate(total, stats) ==
    [name |-> stats.name,
     sloc |-> stats.sloc,
     num_percent |-> Percentage(stats.sloc, total),
     comment |-> HotspotComment(total, stats)]

\* insights.py:149-180  the loop over module_stats, from entry i on
RECURSIVE CandidatesFrom(_, _, _)
CandidatesFrom(i, total, stats) ==
    IF i > Len(stats) THEN << >>
    ELSE IF stats[i].sloc = 0 THEN CandidatesFrom(i + 1, total, stats)
    ELSE IF HotspotComment(total, stats[i]) = << >> THEN CandidatesFrom(i + 1, total, stats)
    ELSE << Candidate(total, stats[i]) >> \o CandidatesFrom(i + 1, total, stats)

\* faulty variant: the sort key is the share alone
KeyLess_ShareOnly(a, b) == NumLess(a.num_percent, b.num_percent)

\* insights.py:184  key (num_percent, sloc): a's key is smaller than b's
KeyLess(a, b) ==
    \/ NumLess(a.num_percent, b.num_percent)
    \/ /\ NumEqual(a.num_percent, b.num_percent)
       /\ a.sloc < b.sloc

\* sorted(..., reverse=True) is stable: x goes behind every entry whose key
\* is not smaller than its own
RECURSIVE InsertDescending(_, _)
InsertDescending(x, sorted) ==
    IF sorted = << >> THEN << x >>
    ELSE IF KeyLess(sorted[1], x) THEN << x >> \o sorted
    ELSE << sorted[1] >> \o InsertDescending(x, Tail(sorted))

\* insights.py:182-186  sorted(candidates, key=..., reverse=True)
RECURSIVE SortedDescending(_)
SortedDescending(candidates) ==
    IF candidates = << >> THEN << >>
    ELSE InsertDescending(candidates[Len(candidates)],
                          SortedDescending(SubSeq(candidates, 1, Len(candidates) - 1)))

\* insights.py:123-186  hotspots_modules(sloc, module_stats)
HotspotsModules(total, stats) ==
    IF total = 0 THEN << >>
    ELSE SortedDescending(CandidatesFrom(1, total, stats))

InitHotspots ==
    /\ pc = "idle"
    /\ sloc \in SlocTotals
    /\ module_stats \in StatsLists
    /\ hotspots = << >>
    /\ modules = << >>
    /\ PipelineIdle /\ ResolverIdle /\ SlocIdle /\ NumsIdle

\* hotspots = hotspots_modules(sloc, module_stats)
CallHotspots ==
    /\ pc = "idle"
    /\ hotspots' = HotspotsModules(sloc, module_stats)
    /\ pc' = "returned"
    /\ UNCHANGED << sloc, module_stats >>
    /\ UNCHANGED << scanVars, loopVars, pipelineVars, resolverVars, slocVars, numsVars >>

NextHotspots == CallHotspots

SpecHotspots == InitHotspots /\ [][NextHotspots]_vars

\* C9: the list returned by hotspots_modules is in descending order of
\* (num_percent, sloc), compared lexicographically on adjacent entries.
C9_HotspotsSorted ==
    pc = "returned" =>
        \A i \in 1..(Len(hotspots) - 1) :
            \/ NumLess(hotspots[i + 1].num_percent, hotspots[i].num_percent)
            \/ /\ NumEqual(hotspots[i + 1].num_percent, hotspots[i].num_percent)
               /\ hotspots[i + 1].sloc <= hotspots[i].sloc

\* two hotspots with the same share and different SLOC, listed in the
\* opposite order in module_stats
C9_Witness ==
    /\ pc = "returned"
    /\ Len(hotspots) = 2
    /\ NumEqual(hotspots[1].num_percent, hotspots[2].num_percent)
    /\ hotspots[1].sloc > hotspots[2].sloc
    /\ hotspots[1].name = module_stats[2].name

\* C10: a module with SLOC share below 10%, fewer than 15 methods and
\* documentation coverage above 50% never appears among the hotspots.
C10_QuietModuleNeverListed ==
    pc = "returned" =>
        \A i \in DOMAIN module_stats :
            ( /\ sloc > 0
              /\ module_stats[i].sloc * Hundred < RELEVANT_SHARE * sloc
              /\ module_stats[i].n_methods < MANY_METHODS
              /\ module_stats[i].total_items > 0
              /\ module_stats[i].documented_items * Hundred
                     > LOW_DOC * module_stats[i].total_items )
            => \A j \in DOMAIN hotspots : hotspots[j].name # module_stats[i].name

\* the module of module_stats[i] is named by an entry of the returned list
Listed(i) == \E j \in DOMAIN hotspots : hotspots[j].name = module_stats[i].name

\* the criteria as stated, on exact quantities: share of the total >= 10%
MeetsShare(i) ==
    sloc > 0 /\ module_stats[i].sloc * Hundred >= RELEVANT_SHARE * sloc
\* method count >= 15
MeetsMethods(i) == module_stats[i].n_methods >= MANY_METHODS
\* coverage <= 50%, coverage being 0 without documentable items
MeetsLowCoverage(i) ==
    \/ module_stats[i].total_items = 0
    \/ module_stats[i].documented_items * Hundred <= LOW_DOC * module_stats[i].total_items

\* C11 (as stated): every module that meets at least one criterion (share
\* >= 10%, methods >= 15, or coverage <= 50% with coverage 0 for a module
\* without documentable items) is in the returned list, for every record and
\* every total SLOC.
C11_EveryQualifyingModuleListed ==
    pc = "returned" =>
        \A i \in DOMAIN module_stats :
            (MeetsShare(i) \/ MeetsMethods(i) \/ MeetsLowCoverage(i)) => Listed(i)

\* C11 (amended): when the total SLOC is not 0, every module with a non-zero
\* SLOC is listed if its share is >= 10%, or it has >= 15 methods, or it has
\* at least one documentable item and its coverage is <= 50%.
C11_QualifyingCountedModuleListed ==
    pc = "returned" =>
        \A i \in DOMAIN module_stats :
            ( /\ sloc # 0
              /\ module_stats[i].sloc # 0
              /\ \/ MeetsShare(i)
                 \/ MeetsMethods(i)
                 \/ /\ module_stats[i].total_items # 0
                    /\ MeetsLowCoverage(i) )
            => Listed(i)

\* a module listed for its documentation alone, at exactly 50% coverage,
\* next to a module without SLOC that is left out
C11_Witness ==
    /\ pc = "returned"
    /\ sloc # 0
    /\ \E i, k \in DOMAIN module_stats :
          /\ module_stats[i].sloc # 0
          /\ ~MeetsShare(i)
          /\ ~MeetsMethods(i)
          /\ module_stats[i].total_items # 0
          /\ module_stats[i].documented_items * Hundred
                 = LOW_DOC * module_stats[i].total_items
          /\ Listed(i)
          /\ module_stats[k].sloc = 0
          /\ MeetsMethods(k)
          /\ ~Listed(k)

(***************************************************************************)
(* internal_dependencies (insights.py).  A dictionary is a function plus   *)
(* the insertion order of its keys, which is the order of iteration.       *)
(***************************************************************************)
\* insights.py:394  limit: int = 5
CORE_LIMIT == 5

\* the module paths a dependency map handed to the insight engine may name
DepNodes == { <<"p", 1>>, <<"p", 2>>, <<"p", 3>> }

\* dependency maps: any keys, any target sets
DepMaps == UNION { [keys -> SUBSET DepNodes] : keys \in SUBSET DepNodes }

\* the values of limit the callers use: a short list and the default
LimitArgs == { 1, CORE_LIMIT }

\* the targets of dm that are not keys of dm
Dangling(dm, targets) == targets \ DOMAIN dm

\* insights.py:442-450  the key, first in iteration order, whose targets
\* hold a destination that is not a key (<< >>: there is none)
RECURSIVE FirstDangling(_, _)
FirstDangling(order, dm) ==
    IF order = << >> THEN << >>
    ELSE IF Dangling(dm, dm[order[1]]) # {} THEN << order[1] >>
    ELSE FirstDangling(Tail(order), dm)

\* insights.py:443-450  dep_map as the loop over dep_map.values() leaves it:
\* setdefault adds every missing destination of one target set, and the next
\* step of the iteration over the grown dictionary raises RuntimeError
DepMapAfter(order, dm) ==
    IF FirstDangling(order, dm) = << >> THEN dm
    ELSE LET added == Dangling(dm, dm[FirstDangling(order, dm)[1]])
         IN  [ m \in DOMAIN dm \cup added |-> IF m \in DOMAIN dm THEN dm[m] ELSE {} ]

\* insights.py:439  out_degree
OutDegree(dm, m) == IF m \in DOMAIN dm THEN Cardinality(dm[m]) ELSE 0

\* insights.py:442-446  in_degree: one per target set that holds m
InDegree(dm, m) == Cardinality({ src \in DOMAIN dm : m \in dm[src] })

\* insights.py:452  sorted(...): paths in ascending order
RECURSIVE SortedPaths(_)
SortedPaths(S) ==
    IF S = {} THEN << >>
    ELSE LET least == CHOOSE m \in S : \A n \in S : m[2] <= n[2]
         IN  << least >> \o SortedPaths(S \ { least })

\* sorted(..., reverse=True) is stable: m goes behind every module whose
\* in-degree is not smaller than its own
RECURSIVE InsertByInDegree(_, _, _)
InsertByInDegree(dm, m, sorted) ==
    IF sorted = << >> THEN << m >>
    ELSE IF InDegree(dm, sorted[1]) < InDegree(dm, m) THEN << m >> \o sorted
    ELSE << sorted[1] >> \o InsertByInDegree(dm, m, Tail(sorted))

\* insights.py:480-484  sorted(all_modules, key=in_degree, reverse=True)
RECURSIVE MostReferenced(_, _)
MostReferenced(dm, all_modules) ==
    IF all_modules = << >> THEN << >>
    ELSE InsertByInDegree(dm, all_modules[Len(all_modules)],
             MostReferenced(dm, SubSeq(all_modules, 1, Len(all_modules) - 1)))

\* insights.py:486-497  the entries of core_modules, from position i on
\* (an entry is printed as '<file name>: referenced by ~<percent>% ...')
RECURSIVE CoreModules(_, _, _, _)
CoreModules(i, dm, most_referenced, num_modules) ==
    IF i > Len(most_referenced) THEN << >>
    ELSE LET module == most_referenced[i]
             indeg == InDegree(dm, module)
             rest == CoreModules(i + 1, dm, most_referenced, num_modules)
         IN  IF indeg <= 0 THEN rest
             ELSE << [module |-> module,
                      percent |-> Percentage(indeg,
                                     IF num_modules - 1 > 1 THEN num_modules - 1 ELSE 1)] >>
                  \o rest

\* insights.py:452-522  the summary of a map without missing destinations
DependencySummary(dm, limit) ==
    LET all_modules == SortedPaths(DOMAIN dm)
        num_modules == Len(all_modules)
        total_edges == Sum([i \in 1..num_modules |-> OutDegree(dm, all_modules[i])])
        independent == { m \in DOMAIN dm : OutDegree(dm, m) = 0 /\ InDegree(dm, m) = 0 }
        ranked == MostReferenced(dm, all_modules)
        most_referenced == SubSeq(ranked, 1, IF limit < Len(ranked) THEN limit ELSE Len(ranked))
    IN  [kind |-> "value", err |-> "",
         independent_modules |-> Cardinality(independent),
         avg_dependencies |-> Average([scalar |-> TRUE, val |-> total_edges],
                                      << num_modules >>, TRUE, PctDecimals),
         core_modules |-> CoreModules(1, dm, most_referenced, num_modules)]

\* insights.py:390-522  internal_dependencies(dep_map, repository, limit=)
\* order: the keys of dep_map in iteration order
InternalDependencies(order, dm, limit) ==
    IF DOMAIN dm = {}
    THEN [kind |-> "value", err |-> "", independent_modules |-> 0,
          avg_dependencies |-> Returns(0, 1), core_modules |-> << >>]
    ELSE IF FirstDangling(order, dm) # << >>
    THEN [kind |-> "raise", err |-> "RuntimeError", independent_modules |-> 0,
          avg_dependencies |-> Returns(0, 1), core_modules |-> << >>]
    ELSE DependencySummary(dm, limit)

InitDeps ==
    /\ pc = "idle"
    /\ dep_map \in DepMaps
    /\ paths = << >>
    /\ call = NoValue
    /\ result = NoValue
    /\ modules = << >>
    /\ PipelineIdle /\ SlocIdle /\ HotspotsIdle

\* dependencies = internal_dependencies(dep_map, repository, limit=...)
\* dep_map is passed by reference: the caller sees what the call did to it
CallInternalDependencies ==
    /\ pc = "idle"
    /\ \E limit \in LimitArgs, order \in Orderings(DOMAIN dep_map) :
          /\ call' = [fn |-> "internal_dependencies", dep_map |-> dep_map, limit |-> limit]
          /\ result' = InternalDependencies(order, dep_map, limit)
          /\ dep_map' = DepMapAfter(order, dep_map)
    /\ pc' = "returned"
    /\ UNCHANGED << scanVars, loopVars, paths, pipelineVars, slocVars, hotspotVars >>

NextDeps == CallInternalDependencies

SpecDeps == InitDeps /\ [][NextDeps]_vars

(***************************************************************************)
(* The report renderer: render_report (report.py), entered by the render   *)
(* stage with the completed module list.  The framework is 'python'.       *)
(***************************************************************************)
\* maps.py:143-146  the module name of a file that sits directly under the
\* repository root: its relative path without the suffix, one segment
ModuleName(path) == << path[1], path[2] >>

\* maps.py:110-150  _physical_paths(modules, repository, 'python')
PhysicalPaths(mods) ==
    [ name \in { ModuleName(mods[i].path) : i \in DOMAIN mods } |->
        { mods[i].path : i \in { j \in DOMAIN mods : ModuleName(mods[j].path) = name } } ]


\* metrics.py:93  sorted(modules, key=lambda module: module.path)
SortedModulePaths(mods) == SortedPaths({ mods[i].path : i \in DOMAIN mods })

\* metrics.py:147-155  the statistics of one module: one item, documented,
\* and the SLOC its parse recorded from the text of the file
PipelineStats(path, module_sloc) ==
    [name |-> path, sloc |-> module_sloc, n_methods |-> 0,
     total_items |-> 1, documented_items |-> 1]

\* metrics.py:93-155  module_stats, in ascending order of path; with_code:
\* the modules whose text holds a meaningful line
ModuleStats(mods, with_code) ==
    [ i \in DOMAIN mods |->
        PipelineStats(SortedModulePaths(mods)[i],
                      IF SortedModulePaths(mods)[i] \in with_code THEN 1 ELSE 0) ]

\* the paths of a module list, in list order
PathsOf(mods) == [i \in DOMAIN mods |-> mods[i].path]

\* the render stage hands the completed module list to render_report
RenderReport ==
    /\ pc = "render"
    /\ pc' = "report"
    /\ UNCHANGED pipelineVars
    /\ UNCHANGED << scanVars, loopVars, resolverVars, slocVars, numsVars, hotspotVars >>

\* report.py:46  dep_map = dependencies_map(modules, repository, framework)
DependenciesMap ==
    /\ pc = "report"
    /\ stages' = Append(stages, "dependencies_map")
    /\ paths' = PhysicalPaths(modules)
    /\ dep_map' = ResolveImports(modules, PhysicalPaths(modules))
    /\ pc' = "mapped"
    /\ UNCHANGED << files, fails, idx, modules, attempted, diagnostics >>
    /\ UNCHANGED << scanVars, loopVars, slocVars, numsVars, hotspotVars >>

\* report.py:47  statistics = repository_metrics(modules, repository)
RepositoryMetrics ==
    /\ pc = "mapped"
    /\ stages' = Append(stages, "repository_metrics")
    /\ \E with_code \in SUBSET { modules[i].path : i \in DOMAIN modules } :
          /\ module_stats' = ModuleStats(modules, with_code)
          /\ sloc' = Cardinality(with_code)
    /\ pc' = "measured"
    /\ UNCHANGED << files, fails, idx, modules, attempted, diagnostics >>
    /\ UNCHANGED << scanVars, loopVars, resolverVars, slocVars, numsVars, hotspots >>

\* report.py:49  hotspots = hotspots_modules(statistics.sloc, statistics.module_stats)
ReportHotspots ==
    /\ pc = "measured"
    /\ stages' = Append(stages, "hotspots_modules")
    /\ hotspots' = HotspotsModules(sloc, module_stats)
    /\ pc' = "hotspots"
    /\ UNCHANGED << files, fails, idx, modules, attempted, diagnostics >>
    /\ UNCHANGED << scanVars, loopVars, resolverVars, slocVars, numsVars, sloc, module_stats >>

\* report.py:50  dependencies = internal_dependencies(dep_map, repository)
\* (the keys of dep_map are in the order of the module list, maps.py:82)
ReportDependencies ==
    /\ pc = "hotspots"
    /\ stages' = Append(stages, "internal_dependencies")
    /\ call' = [fn |-> "internal_dependencies", dep_map |-> dep_map, limit |-> CORE_LIMIT]
    /\ result' = InternalDependencies(PathsOf(modules), dep_map, CORE_LIMIT)
    /\ dep_map' = DepMapAfter(PathsOf(modules), dep_map)
    /\ pc' = IF InternalDependencies(PathsOf(modules), dep_map, CORE_LIMIT).kind = "raise"
             THEN "aborted" ELSE "dependencies"
    /\ UNCHANGED << files, fails, idx, modules, attempted, diagnostics >>
    /\ UNCHANGED << scanVars, loopVars, paths, slocVars, hotspotVars >>

\* report.py:57-88  the context: technical_risks, risk_impact and
\* recommendations are called, in this order, with hotspots and dependencies
ReportContext ==
    /\ pc = "dependencies"
    /\ stages' = stages \o << "technical_risks", "risk_impact", "recommendations" >>
    /\ pc' = "done"
    /\ UNCHANGED << files, fails, idx, modules, attempted, diagnostics >>
    /\ UNCHANGED << scanVars, loopVars, resolverVars, slocVars, numsVars, hotspotVars >>

Next ==
    \/ Scan \/ ParseOk \/ ParseFail \/ EndLoop \/ Render
    \/ RenderReport \/ DependenciesMap \/ RepositoryMetrics
    \/ ReportHotspots \/ ReportDependencies \/ ReportContext

Spec == InitPipeline /\ [][Next]_vars

\* the run is a single sequential thread: a step of the scan and of the
\* parse loop that can be taken is taken
FairSpec == Spec /\ WF_vars(Scan \/ ParseOk \/ ParseFail \/ EndLoop)

\* the files of the scan whose parse succeeds, in scan order
RECURSIVE Succeeded(_)
Succeeded(fs) ==
    IF fs = << >> THEN << >>
    ELSE IF fs[1] \in fails THEN Succeeded(Tail(fs))
         ELSE << fs[1] >> \o Succeeded(Tail(fs))

\* C1: whatever subset of the scanned files fails to parse, the loop hands
\* every file to the parser exactly once, in scan order, never aborts, and
\* the run reaches the rendering stage.
C1_EveryFileParsedThenRender ==
    /\ [](pc # "aborted")
    /\ [](pc = "parse" => attempted = SubSeq(files, 1, idx))
    /\ [](pc \in {"render", "done"} => attempted = files)
    /\ <>(pc \in {"render", "done"})

\* a failing file was followed by a later file and the run reached rendering
C1_Witness ==
    /\ pc = "render"
    /\ Len(files) >= 2
    /\ files[1] \in fails
    /\ attempted = files

\* C2: when the loop has ended the module list holds exactly one ModuleInfo
\* per file whose parse succeeded, in scan order, and nothing for the others.
C2_ModulesAreSucceededFiles ==
    pc \in {"render", "done"} =>
        /\ Len(modules) = Len(Succeeded(files))
        /\ \A i \in DOMAIN modules : modules[i].path = Succeeded(files)[i]
        /\ \A i \in DOMAIN modules : modules[i].path \notin fails

\* a run with both a failed and a succeeded file has ended its loop
C2_Witness ==
    /\ pc = "render"
    /\ \E i, j \in DOMAIN files : files[i] \in fails /\ files[j] \notin fails
    /\ Len(modules) < Len(files)
    /\ Len(modules) > 0

\* the stages that read the completed module list
GraphAndMetricsStages == { "dependencies_map", "repository_metrics" }
\* the insight functions called by render_report
InsightStages ==
    { "hotspots_modules", "internal_dependencies", "technical_risks",
      "risk_impact", "recommendations" }

\* the number of parses started before position i of the stage history
ParsesBefore(i) == Cardinality({ j \in 1..(i - 1) : stages[j] = "parse" })

\* C12: the stages run in a fixed order: the scan is materialised before
\* the first parse and its list never changes afterwards, every parse has
\* completed before the dependency resolver or the metrics aggregator
\* starts, and an insight function is only called after both the
\* dependency graph and the repository metrics exist.
C12_StagesInFixedOrder ==
    /\ [][stages # << >> => files' = files]_vars
    /\ [](\A i \in DOMAIN stages :
            /\ (stages[i] = "scan") <=> (i = 1)
            /\ stages[i] \in GraphAndMetricsStages =>
                  /\ ParsesBefore(i) = Len(files)
                  /\ attempted = files
                  /\ \A j \in i..Len(stages) : stages[j] # "parse"
            /\ stages[i] \in InsightStages =>
                  /\ \E j \in 1..(i - 1) : stages[j] = "dependencies_map"
                  /\ \E j \in 1..(i - 1) : stages[j] = "repository_metrics")

\* a run in which a parse failed before a later parse, and which went on
\* to the last insight function
C12_Witness ==
    /\ pc = "done"
    /\ Len(files) >= 2
    /\ files[1] \in fails
    /\ Len(modules) >= 1
    /\ stages # << >>
    /\ stages[Len(stages)] = "recommendations"

IndependentOf(dm) ==
    { m \in DOMAIN dm : dm[m] = {} /\ \A n \in DOMAIN dm \ { m } : m \notin dm[n] }

DefaultExcluded == { << "b", "i", "n" >>, << "o", "b", "j" >> }

\* str.split(','): the pieces between the commas, in order (never empty)
RECURSIVE SplitCommas(_)
SplitCommas(s) ==
    IF \A i \in DOMAIN s : s[i] # ","
    THEN << s >>
    ELSE LET k == CHOOSE i \in DOMAIN s :
                      /\ s[i] = ","
                      /\ \A j \in 1..(i - 1) : s[j] # ","
         IN  << SubSeq(s, 1, k - 1) >> \o SplitCommas(SubSeq(s, k + 1, Len(s)))

\* what a call that yields a set of names returns, and None
SetValue(names) == [kind |-> "set", names |-> names]
NoneValue == [kind |-> "none", names |-> {}]

\* --excluded: absent (None) or a string over a name character, a
\* character of the default names and the comma
ExcludedArgs ==
    { [given |-> FALSE, text |-> << >>] }
    \cup { [given |-> TRUE, text |-> t] : t \in StringsUpTo({ "x", "b", "," }, MaxLineLen) }

\* settings.py:111  `if excluded:` None and '' are false
Truthy(excluded) == excluded.given /\ excluded.text # << >>

\* settings.py:112  EXCLUDED after EXCLUDED.update(set(excluded.split(',')))
ExcludedAfter(excluded, global) ==
    IF Truthy(excluded) THEN global \cup Range(SplitCommas(excluded.text)) ELSE global

\* settings.py:95-114  __set_excluded(excluded); set.update returns None
SetExcluded(excluded, global) ==
    IF Truthy(excluded) THEN NoneValue ELSE SetValue(global)

InitSettings ==
    /\ pc = "idle"
    /\ EXCLUDED = DefaultExcluded
    /\ walk = << >>
    /\ visited = {}
    /\ files = << >>
    /\ fails = {}
    /\ idx = 0
    /\ modules = << >>
    /\ attempted = << >>
    /\ diagnostics = 0
    /\ stages = << >>
    /\ LoopIdle
    /\ ResolverIdle /\ SlocIdle /\ NumsIdle /\ HotspotsIdle

\* settings.py:49  self.__excluded = self.__set_excluded(args.excluded)
CallSetExcluded ==
    /\ pc = "idle"
    /\ \E excluded \in ExcludedArgs :
          /\ call' = [fn |-> "set_excluded", excluded |-> excluded]
          /\ result' = SetExcluded(excluded, EXCLUDED)
          /\ EXCLUDED' = ExcludedAfter(excluded, EXCLUDED)
    /\ pc' = "returned"
    /\ UNCHANGED << walk, visited, loopVars, pipelineVars, resolverVars, slocVars, hotspotVars >>

NextSettings == CallSetExcluded

SpecSettings == InitSettings /\ [][NextSettings]_vars

\* C14: the exclude set handed to the scanner is the default set when the
\* user supplies no additions, and the union of the default set and the
\* comma-separated names when the user supplies additions; in both cases it
\* is a set, usable for the membership tests of the scanner.
C14_ExcludedIsDefaultPlusAdditions ==
    (pc = "returned" /\ call.fn = "set_excluded") =>
        /\ result.kind = "set"
        /\ ~Truthy(call.excluded) => result.names = DefaultExcluded
        /\ Truthy(call.excluded) =>
              result.names = DefaultExcluded \cup Range(SplitCommas(call.excluded.text))

(***************************************************************************)
(* scanner (scanner.py): os.walk(root, followlinks=False), top-down.  A    *)
(* step is one iteration of the loop over os.walk; the paths it yields are *)
(* collected in files, as list(scanner(...)) does.                         *)
(***************************************************************************)
\* the directories a tree may hold: the root, a child d1 of the root, and
\* d2, a child of the root or of d1
Dirs == { "root", "d1", "d2" }
\* directory names: an ordinary name and a name of the excluded set
DirNames == { << "s" >>, << "v" >> }
\* file names: an allowed suffix, another suffix, and a name that starts
\* with its only dot
FileNames == { << "a", ".", "p", "y" >>, << "a", ".", "t" >>, << ".", "p", "y" >> }

\* the trees: which directories exist, their parent, names and files
Trees ==
    { t \in [dirs : SUBSET Dirs,
             parent : [{ "d1", "d2" } -> { "root", "d1" }],
             name : [Dirs -> DirNames],
             files : [Dirs -> SUBSET FileNames]] :
        /\ "root" \in t.dirs
        /\ "d2" \in t.dirs => "d1" \in t.dirs
        /\ t.parent["d1"] = "root"
        /\ \A d \in Dirs \ t.dirs : t.files[d] = {} /\ t.name[d] = << "s" >>
        /\ "d2" \notin t.dirs => t.parent["d2"] = "root" }

IncludedArgs == { { << ".", "p", "y" >> }, { << ".", "t" >> } }
ExcludedSets == { {}, { << "v" >> } }

\* pathlib: PurePath.suffix, the part of the name from its last dot on,
\* empty when the name has no dot, starts with its last dot or ends with it
Suffix(name) ==
    LET dots == { i \in DOMAIN name : name[i] = "." }
    IN  IF dots = {} THEN << >>
        ELSE LET i == CHOOSE k \in dots : \A j \in dots : j <= k
             IN  IF 1 < i /\ i < Len(name) THEN SubSeq(name, i, Len(name)) ELSE << >>

\* os.walk: the sub-directories of directory d, in listing order
Subdirs(tree, d) ==
    IF d = "root"
    THEN (IF "d1" \in tree.dirs THEN << "d1" >> ELSE << >>)
         \o (IF "d2" \in tree.dirs /\ tree.parent["d2"] = "root" THEN << "d2" >> ELSE << >>)
    ELSE IF d = "d1" /\ "d2" \in tree.dirs /\ tree.parent["d2"] = "d1" THEN << "d2" >>
    ELSE << >>

\* faulty variant: the filtered list is bound to a new name, the list that
\* os.walk descends into keeps every sub-directory
Pruned_NotInPlace(tree, dirnames, excluded) == dirnames

\* scanner.py:36  dirnames[:] = [dirname for dirname in dirnames if dirname not in excluded]
RECURSIVE Pruned(_, _, _)
Pruned(tree, dirnames, excluded) ==
    IF dirnames = << >> THEN << >>
    ELSE IF tree.name[dirnames[1]] \notin excluded
         THEN << dirnames[1] >> \o Pruned(tree, Tail(dirnames), excluded)
         ELSE Pruned(tree, Tail(dirnames), excluded)

\* scanner.py:38-42  the files of directory d that are yielded
Yielded(tree, d, included) ==
    { << d, f >> : f \in { g \in tree.files[d] : Suffix(g) \in included } }

InitScanner ==
    /\ pc = "walk"
    /\ \E tree \in Trees, included \in IncludedArgs, excluded \in ExcludedSets :
          call = [fn |-> "scanner", tree |-> tree, included |-> included, excluded |-> excluded]
    /\ result = NoValue
    /\ EXCLUDED = {}
    /\ walk = << "root" >>
    /\ visited = {}
    /\ files = << >>
    /\ fails = {}
    /\ idx = 0
    /\ modules = << >>
    /\ attempted = << >>
    /\ diagnostics = 0
    /\ stages = << >>
    /\ LoopIdle
    /\ ResolverIdle /\ SlocIdle /\ HotspotsIdle

\* one iteration of `for dirpath, dirnames, filenames in os.walk(root)`:
\* the next directory is listed, its sub-directories are pruned and queued
\* ahead of the directories already waiting, its files are tested
WalkDirectory ==
    /\ pc = "walk"
    /\ walk # << >>
    /\ LET dirpath == walk[1]
       IN  /\ visited' = visited \cup { dirpath }
           /\ walk' = Pruned(call.tree, Subdirs(call.tree, dirpath), call.excluded) \o Tail(walk)
           /\ \E order \in Orderings(Yielded(call.tree, dirpath, call.included)) :
                 files' = files \o order
    /\ UNCHANGED << pc, EXCLUDED, fails, idx, modules, attempted, diagnostics, stages >>
    /\ UNCHANGED << loopVars, numsVars, resolverVars, slocVars, hotspotVars >>

\* os.walk has no directory left: the generator is exhausted
WalkExhausted ==
    /\ pc = "walk"
    /\ walk = << >>
    /\ pc' = "exhausted"
    /\ UNCHANGED << scanVars, loopVars, pipelineVars, numsVars, resolverVars, slocVars, hotspotVars >>

NextScanner == WalkDirectory \/ WalkExhausted

SpecScanner == InitScanner /\ [][NextScanner]_vars

\* directory d and its ancestors, the root left out
RECURSIVE BelowRoot(_, _)
BelowRoot(tree, d) ==
    IF d = "root" THEN {} ELSE { d } \cup BelowRoot(tree, tree.parent[d])

\* directory d lies in or under a directory below the root whose name is excluded
UnderExcluded(tree, d, excluded) ==
    \E a \in BelowRoot(tree, d) : tree.name[a] \in excluded

\* C15: the scanner yields exactly the files under the root whose suffix is
\* allowed and none of whose ancestor directories below the root has an
\* excluded name, each once; a directory with an excluded name, and every
\* directory under it, is never visited.
C15_ScannerYieldsExactly ==
    /\ \A d \in visited : ~UnderExcluded(call.tree, d, call.excluded)
    /\ pc = "exhausted" =>
          /\ Range(files) =
                UNION { { << d, f >> : f \in { g \in call.tree.files[d] :
                                                 Suffix(g) \in call.included } } :
                        d \in { e \in call.tree.dirs :
                                  ~UnderExcluded(call.tree, e, call.excluded) } }
          /\ Len(files) = Cardinality(Range(files))
          /\ visited = { e \in call.tree.dirs : ~UnderExcluded(call.tree, e, call.excluded) }

\* the walk is over; an excluded directory held an allowed file and had a
\* sub-directory with an allowed file, and the root, itself of an excluded
\* name, yielded a file
C15_Witness ==
    /\ pc = "exhausted"
    /\ call.excluded # {}
    /\ call.tree.name["root"] \in call.excluded
    /\ call.tree.name["d1"] \in call.excluded
    /\ call.tree.name["d2"] \notin call.excluded
    /\ "d2" \in call.tree.dirs
    /\ call.tree.parent["d2"] = "d1"
    /\ \E f \in call.tree.files["d2"] : Suffix(f) \in call.included
    /\ \E f \in call.tree.files["d1"] : Suffix(f) \in call.included
    /\ Len(files) >= 1

(***************************************************************************)
(* _collect_usings (csharp.py).  The source is a sequence of tokens: the   *)
(* word "using", blank, line break, name characters and other characters.  *)
(***************************************************************************)
LineBreak == "\n"

\* \s
IsSpace(t) == t \in { " ", LineBreak }
\* [A-Za-z0-9_.] (the letters of the word "using" are name characters too)
IsNameChar(t) == t \in { "A", "B", ".", "using" }

\* the lines a C# source is made of here
UsingLines ==
    { << "using", " ", "A", ";" >>,
      << "using", " ", "A", ".", "B", ";" >>,
      << " ", "using", " ", " ", "B", " ", ";" >>,
      << "using", "A", ";" >>,
      << "/", "/", " ", "using", " ", "A", ";" >>,
      << "using", " ", "B" >>,
      << ";" >>,
      << >> }

\* '\n'.join(lines)
RECURSIVE JoinLines(_)
JoinLines(lines) ==
    IF lines = << >> THEN << >>
    ELSE IF Len(lines) = 1 THEN lines[1]
         ELSE lines[1] \o << LineBreak >> \o JoinLines(Tail(lines))

\* the sources: up to MaxLines lines
CsharpSources == { JoinLines(ls) : ls \in UNION { [1..k -> UsingLines] : k \in 0..MaxLines } }

\* the first position from i on that holds no blank / no name character
RECURSIVE SkipSpaces(_, _)
SkipSpaces(src, i) ==
    IF i <= Len(src) /\ IsSpace(src[i]) THEN SkipSpaces(src, i + 1) ELSE i
RECURSIVE SkipName(_, _)
SkipName(src, i) ==
    IF i <= Len(src) /\ IsNameChar(src[i]) THEN SkipName(src, i + 1) ELSE i

\* csharp.py:51  USING_RE = ^\s*using\s+([A-Za-z0-9_.]+)\s*;  matched at
\* position i (MULTILINE: ^ is the start of the text or of a line)
UsingMatch(src, i) ==
    LET word == SkipSpaces(src, i)
        name == SkipSpaces(src, word + 1)
        after == SkipName(src, name)
        semi == SkipSpaces(src, after)
    IN  IF /\ (i = 1 \/ src[i - 1] = LineBreak)
           /\ word <= Len(src) /\ src[word] = "using"
           /\ name > word + 1
           /\ after > name
           /\ semi <= Len(src) /\ src[semi] = ";"
        THEN [found |-> TRUE, group |-> SubSeq(src, name, after - 1), end |-> semi + 1]
        ELSE [found |-> FALSE, group |-> << >>, end |-> i]

\* USING_RE.finditer(src): group(1) of the matches from position i on
RECURSIVE Usings(_, _)
Usings(src, i) ==
    IF i > Len(src) THEN << >>
    ELSE IF UsingMatch(src, i).found
         THEN << UsingMatch(src, i).group >> \o Usings(src, UsingMatch(src, i).end)
         ELSE Usings(src, i + 1)

\* the order of characters: '.' < 'A' < 'B' < 'u'
CharRank(t) == IF t = "." THEN 1 ELSE IF t = "A" THEN 2 ELSE IF t = "B" THEN 3 ELSE 4

\* a < b for strings
RECURSIVE StrLess(_, _)
StrLess(a, b) ==
    IF b = << >> THEN FALSE
    ELSE IF a = << >> THEN TRUE
    ELSE IF a[1] = b[1] THEN StrLess(Tail(a), Tail(b))
    ELSE CharRank(a[1]) < CharRank(b[1])

\* sorted(S) for a set of strings
RECURSIVE SortedStrings(_)
SortedStrings(S) ==
    IF S = {} THEN << >>
    ELSE LET least == CHOOSE a \in S : \A b \in S \ { a } : StrLess(a, b)
         IN  << least >> \o SortedStrings(S \ { least })

\* csharp.py:432  sorted({using.group(1) for using in USING_RE.finditer(src)})
CollectUsings(src) == SortedStrings(Range(Usings(src, 1)))

InitUsings ==
    /\ pc = "idle"
    /\ call = NoValue
    /\ result = NoValue
    /\ modules = << >>
    /\ PipelineIdle /\ ResolverIdle /\ SlocIdle /\ HotspotsIdle

\* csharp.py:191  imports=_collect_usings(src)
CallCollectUsings ==
    /\ pc = "idle"
    /\ \E src \in CsharpSources :
          /\ call' = [fn |-> "_collect_usings", src |-> src]
          /\ result' = CollectUsings(src)
    /\ pc' = "returned"
    /\ UNCHANGED << scanVars, loopVars, pipelineVars, resolverVars, slocVars, hotspotVars >>

NextUsings == CallCollectUsings

SpecUsings == InitUsings /\ [][NextUsings]_vars

\* maps.py:140  the marker the dependency resolver tests for
NamespaceMarker == << "_", "_", "n", "s", "_", "_", ":" >>

\* C16: the import list of the C# parser is deduplicated and sorted, every
\* entry carries the marker '__ns__:', and every namespace imported by a
\* using statement of the file is a tagged entry of the list.
C16_UsingsTaggedSortedUnique ==
    (pc = "returned" /\ call.fn = "_collect_usings") =>
        /\ \A i \in 1..(Len(result) - 1) : StrLess(result[i], result[i + 1])
        /\ \A i \in DOMAIN result : StartsWith(result[i], NamespaceMarker)
        /\ \A ns \in Range(Usings(call.src, 1)) : NamespaceMarker \o ns \in Range(result)

(***************************************************************************)
(* The documentation bands of technical_risks and risk_impact              *)
(* (insights.py): both classify average([class, method, attribute]).       *)
(***************************************************************************)
\* insights.py:579, 583  the thresholds of technical_risks
RISK_LOW_DOC == 35
RISK_MODERATE_DOC == 55
\* insights.py:673, 678  the thresholds of risk_impact
IMPACT_LACK_DOC == 40
IMPACT_UNEVEN_DOC == 60

\* the coverage percentages handed to the two functions
Percents == { 5 * k : k \in 0..20 }

\* average([class_percent, method_percent, attribute_percent])
DocAverage(class_percent, method_percent, attribute_percent) ==
    Average([scalar |-> FALSE, vals |-> << class_percent, method_percent, attribute_percent >>],
            << >>, FALSE, PctDecimals)

\* doc_average < threshold, for the fraction avg.num / avg.den
Below(avg, threshold) == avg.num < threshold * avg.den

\* insights.py:573-586  the documentation risk technical_risks reports
TechnicalRisksDoc(class_percent, method_percent, attribute_percent, has_stats) ==
    IF ~has_stats THEN "not calculated"
    ELSE LET doc_average == DocAverage(class_percent, method_percent, attribute_percent)
         IN  IF Below(doc_average, RISK_LOW_DOC) THEN "low"
             ELSE IF Below(doc_average, RISK_MODERATE_DOC) THEN "moderate"
             ELSE "none"

\* insights.py:672-686  the first maintainability sentence of risk_impact
RiskImpactDoc(class_percent, method_percent, attribute_percent) ==
    LET doc_average == DocAverage(class_percent, method_percent, attribute_percent)
    IN  IF Below(doc_average, IMPACT_LACK_DOC) THEN "lack"
        ELSE IF Below(doc_average, IMPACT_UNEVEN_DOC) THEN "uneven"
        ELSE "reasonable"

InitRisks ==
    /\ pc = "idle"
    /\ call = NoValue
    /\ result = NoValue
    /\ modules = << >>
    /\ PipelineIdle /\ ResolverIdle /\ SlocIdle /\ HotspotsIdle

\* report.py:73-82  technical_risks and risk_impact are handed the same
\* three percentages
CallRisks ==
    /\ pc = "idle"
    /\ \E c \in Percents, m \in Percents, a \in Percents, has_stats \in BOOLEAN :
          /\ call' = [fn |-> "risks", class_percent |-> c, method_percent |-> m,
                      attribute_percent |-> a, has_stats |-> has_stats]
          /\ result' = [technical_risks |-> TechnicalRisksDoc(c, m, a, has_stats),
                        risk_impact |-> RiskImpactDoc(c, m, a)]
    /\ pc' = "returned"
    /\ UNCHANGED << scanVars, loopVars, pipelineVars, resolverVars, slocVars, hotspotVars >>

NextRisks == CallRisks

SpecRisks == InitRisks /\ [][NextRisks]_vars

\* C17: for every triple of percentages (and module statistics present),
\* risk_impact reports the 'lack of documentation' band iff technical_risks
\* reports low coverage, the 'uneven' band iff it reports moderate coverage,
\* and the 'reasonable' band iff it reports no documentation risk.
C17_ImpactBandsMatchRiskBands ==
    (pc = "returned" /\ call.fn = "risks" /\ call.has_stats) =>
        /\ result.risk_impact = "lack" <=> result.technical_risks = "low"
        /\ result.risk_impact = "uneven" <=> result.technical_risks = "moderate"
        /\ result.risk_impact = "reasonable" <=> result.technical_risks = "none"

(***************************************************************************)
(* _normalize_document, _format_block_text (python.py) and fix_bullets,    *)
(* fix_asterisk (fixers.py).  A documentation text is given as the lines   *)
(* of doc.split('\n'); the text '' is the single empty line.               *)
(***************************************************************************)
\* str.lstrip()
RECURSIVE LStrip(_)
LStrip(s) == IF s # << >> /\ s[1] = " " THEN LStrip(Tail(s)) ELSE s

\* len(line) - len(line.lstrip())
Indent(s) == Len(s) - Len(LStrip(s))

\* python.py:30-32  RETURNS, SECTIONS, RAISES and python.py:184-188 headers_map
SECTIONS ==
    { << "A", "r", "g", "s", ":" >>,
      << "A", "r", "g", "u", "m", "e", "n", "t", "s", ":" >>,
      << "P", "a", "r", "a", "m", "e", "t", "e", "r", "s", ":" >> }
RETURNS ==
    { << "R", "e", "t", "u", "r", "n", "s", ":" >>,
      << "R", "e", "t", "u", "r", "n", ":" >> }
RAISES ==
    { << "R", "a", "i", "s", "e", "s", ":" >>,
      << "R", "a", "i", "s", "e", ":" >>,
      << "E", "x", "c", "e", "p", "t", "i", "o", "n", "s", ":" >>,
      << "E", "x", "c", "e", "p", "t", "i", "o", "n", ":" >> }
HeaderKeys == SECTIONS \cup RETURNS \cup RAISES
HeadersMap(stripped) ==
    IF stripped \in SECTIONS THEN << "*", "A", "r", "g", "s", ":", "*" >>
    ELSE IF stripped \in RETURNS THEN << "*", "R", "e", "t", "u", "r", "n", "s", ":", "*" >>
    ELSE << "*", "R", "a", "i", "s", "e", "s", ":", "*" >>

\* the lines a docstring is made of here
DocLines ==
    { << "a" >>,
      << "*", " ", "a" >>,
      << " ", " ", "-", " ", "a", " " >>,
      << "*", "a", "*" >>,
      << >>,
      << " ", " ", "a" >>,
      << "A", "r", "g", "s", ":" >>,
      << " ", " ", " ", " ", "a", ":", " ", "-", " ", "b" >>,
      << " ", " ", " ", " ", " ", " ", "c" >> }

\* Optional[str]: None, or a text given as its lines
DocNone == [none |-> TRUE, lines |-> << >>]
DocText(lines) == [none |-> FALSE, lines |-> lines]

\* the docstrings: None, or a text of up to MaxLines lines
DocArgs == { DocNone } \cup { DocText(ls) : ls \in UNION { [1..k -> DocLines] : k \in 1..MaxLines } }

\* inspect.cleandoc: the smallest indentation of the non-blank lines after
\* the first (<< >> when there is none)
Margins(lines) == { Indent(lines[i]) : i \in { j \in 2..Len(lines) : LStrip(lines[j]) # << >> } }
Margin(lines) ==
    IF Margins(lines) = {} THEN 0
    ELSE CHOOSE m \in Margins(lines) : \A n \in Margins(lines) : m <= n

\* while lines and not lines[-1]: lines.pop()
RECURSIVE DropLastEmpty(_)
DropLastEmpty(lines) ==
    IF lines # << >> /\ lines[Len(lines)] = << >>
    THEN DropLastEmpty(SubSeq(lines, 1, Len(lines) - 1)) ELSE lines
\* while lines and not lines[0]: lines.pop(0)
RECURSIVE DropFirstEmpty(_)
DropFirstEmpty(lines) ==
    IF lines # << >> /\ lines[1] = << >> THEN DropFirstEmpty(Tail(lines)) ELSE lines

\* python.py:177-178  inspect.cleandoc(doc).splitlines()
Cleandoc(lines) ==
    LET dedented == [i \in 1..Len(lines) |->
                        IF i = 1 THEN LStrip(lines[i])
                        ELSE SubSeq(lines[i], Margin(lines) + 1, Len(lines[i]))]
    IN  DropFirstEmpty(DropLastEmpty(dedented))

Bullets == { << "-", " " >>, << "*", " " >> }

\* faulty variant: the bullet keeps its indentation and its marker
FixBullets_Keep(line) == line

\* fixers.py:16-44  fix_bullets, for a text of one line
FixBullets(line) ==
    LET stripped == LStrip(line)
    IN  IF \E b \in Bullets : StartsWith(stripped, b)
        THEN << "-", " " >> \o Strip(SubSeq(stripped, 3, Len(stripped)))
        ELSE line

\* fixers.py:46-62  fix_asterisk: txt.replace('*', '')
RECURSIVE FixAsterisk(_)
FixAsterisk(txt) ==
    IF txt = << >> THEN txt
    ELSE IF txt[1] = "*" THEN FixAsterisk(Tail(txt))
    ELSE << txt[1] >> \o FixAsterisk(Tail(txt))

\* s.replace(pat, '')
RECURSIVE RemoveAll(_, _)
RemoveAll(s, pat) ==
    IF s = << >> THEN s
    ELSE IF StartsWith(s, pat) THEN RemoveAll(SubSeq(s, Len(pat) + 1, Len(s)), pat)
    ELSE << s[1] >> \o RemoveAll(Tail(s), pat)

\* ' '.join(parts)
RECURSIVE JoinBlank(_)
JoinBlank(parts) ==
    IF parts = << >> THEN << >>
    ELSE IF Len(parts) = 1 THEN parts[1]
    ELSE parts[1] \o << " " >> \o JoinBlank(Tail(parts))

Colon == << ":" >>
BlockIndent == << " ", " ", " ", " " >>

\* python.py:266-280  the more indented lines after an item: the index
\* reached and the stripped lines collected
RECURSIVE Continuation(_, _, _)
Continuation(jdx, indent, lines) ==
    IF jdx > Len(lines) THEN [jdx |-> jdx, extra |-> << >>]
    ELSE IF Strip(lines[jdx]) = << >> THEN Continuation(jdx + 1, indent, lines)
    ELSE IF Indent(lines[jdx]) <= indent THEN [jdx |-> jdx, extra |-> << >>]
    ELSE LET more == Continuation(jdx + 1, indent, lines)
         IN  [jdx |-> more.jdx, extra |-> << Strip(lines[jdx]) >> \o more.extra]

\* python.py:259-286  re.match(r'\s*([^:]+):\s*(.*)', cursor): the item
FormatItem(cursor, extra) ==
    LET name == Strip(Before(cursor, Colon))
        first == Strip(After(cursor, Colon))
        desc == IF extra # << >> THEN Strip(first \o << " " >> \o JoinBlank(extra)) ELSE first
    IN  << "-", " " >> \o name \o << ":", " " >> \o RemoveAll(desc, << "-", " " >>)

\* python.py:213-293  _format_block_text(idx, num_lines, lines)
RECURSIVE FormatBlockText(_, _)
FormatBlockText(at, lines) ==
    IF at <= Len(lines) /\ (StartsWith(lines[at], BlockIndent) \/ Strip(lines[at]) = << >>)
    THEN LET cursor == lines[at]
         IN  IF Strip(cursor) = << >> THEN FormatBlockText(at + 1, lines)
             ELSE IF Contains(cursor, Colon) /\ FirstAt(cursor, Colon) > 1
             THEN LET cont == Continuation(at + 1, Indent(cursor), lines)
                      rest == FormatBlockText(cont.jdx, lines)
                  IN  [idx |-> rest.idx,
                       items |-> << FormatItem(cursor, cont.extra) >> \o rest.items]
             ELSE LET rest == FormatBlockText(at + 1, lines)
                  IN  [idx |-> rest.idx,
                       items |-> << << "-", " " >> \o RemoveAll(Strip(cursor), << "-", " " >>) >>
                                 \o rest.items]
    ELSE [idx |-> at, items |-> << >>]

\* python.py:190-209  the loop of _normalize_document from line `at` on
RECURSIVE NormalizeFrom(_, _)
NormalizeFrom(at, lines) ==
    IF at > Len(lines) THEN << >>
    ELSE IF Strip(lines[at]) \in HeaderKeys
         THEN LET block == FormatBlockText(at + 1, lines)
              IN  << HeadersMap(Strip(lines[at])) >> \o block.items \o << << >> >>
                  \o NormalizeFrom(block.idx, lines)
         ELSE << FixAsterisk(FixBullets(lines[at])) >> \o NormalizeFrom(at + 1, lines)

\* '\n'.join(out), as its lines
Joined(out) == IF out = << >> THEN << << >> >> ELSE out

\* python.py:140-211  _normalize_document(doc)
NormalizeDocument(doc) ==
    IF doc.none \/ doc.lines = << << >> >> THEN doc
    ELSE DocText(Joined(NormalizeFrom(1, Cleandoc(doc.lines))))

InitNormalize ==
    /\ pc = "idle"
    /\ call = NoValue
    /\ result = NoValue
    /\ modules = << >>
    /\ PipelineIdle /\ ResolverIdle /\ SlocIdle /\ HotspotsIdle

\* python.py:73  doc=_normalize_document(ast.get_docstring(node))
CallNormalizeDocument ==
    /\ pc = "idle"
    /\ \E doc \in DocArgs :
          /\ call' = [fn |-> "_normalize_document", doc |-> doc]
          /\ result' = NormalizeDocument(doc)
    /\ pc' = "returned"
    /\ UNCHANGED << scanVars, loopVars, pipelineVars, resolverVars, slocVars, hotspotVars >>

NextNormalize == CallNormalizeDocument

SpecNormalize == InitNormalize /\ [][NextNormalize]_vars

NormalizeReturned == pc = "returned" /\ call.fn = "_normalize_document"

\* no line of the text is a section header
NoHeader(lines) == \A i \in DOMAIN lines : Strip(lines[i]) \notin HeaderKeys

\* the line starts, after its indentation, with a bullet marker
IsBullet(line) == \E b \in Bullets : StartsWith(LStrip(line), b)

WithoutAsterisks(s) == SelectSeq(s, LAMBDA c : c # "*")

\* C19 as stated: a text with no section header line is returned
\* unmodified except for dedenting, every character of every dedented line
\* preserved.
C19_NoHeaderReturnedUnmodified ==
    (NormalizeReturned /\ ~call.doc.none /\ NoHeader(call.doc.lines)) =>
        result.lines = Joined(Cleandoc(call.doc.lines))

\* C19 amended: a text with no section header line is returned dedented
\* with the same number of lines in the same order, each line rewritten
\* only in two ways: a line that starts with '- ' or '* ' after its
\* indentation becomes '- ' followed by its remaining text stripped, and
\* every '*' is removed; a line with neither is preserved.
C19_NoHeaderOnlyBulletsAndAsterisksChange ==
    (NormalizeReturned /\ ~call.doc.none /\ NoHeader(call.doc.lines)) =>
        LET clean == Cleandoc(call.doc.lines)
        IN  /\ ~result.none
            /\ Len(result.lines) = IF clean = << >> THEN 1 ELSE Len(clean)
            /\ clean = << >> => result.lines[1] = << >>
            /\ \A i \in DOMAIN clean :
                  /\ IsBullet(clean[i]) =>
                        result.lines[i] =
                            WithoutAsterisks(<< "-", " " >>
                                \o Strip(SubSeq(LStrip(clean[i]), 3, Len(LStrip(clean[i])))))
                  /\ ~IsBullet(clean[i]) => result.lines[i] = WithoutAsterisks(clean[i])
                  /\ (~IsBullet(clean[i]) /\ ~Contains(clean[i], << "*" >>)) =>
                        result.lines[i] = clean[i]

\* a header-free text with an indented bullet and an emphasised line came
\* back changed
C19_Witness ==
    /\ NormalizeReturned /\ ~call.doc.none /\ NoHeader(call.doc.lines)
    /\ \E i, j \in DOMAIN Cleandoc(call.doc.lines) :
          /\ IsBullet(Cleandoc(call.doc.lines)[i]) /\ Indent(Cleandoc(call.doc.lines)[i]) > 0
          /\ ~IsBullet(Cleandoc(call.doc.lines)[j])
          /\ Contains(Cleandoc(call.doc.lines)[j], << "*" >>)
    /\ result.lines # Cleandoc(call.doc.lines)

(***************************************************************************)
(* _collect_xml_doc and _xml_node_to_text (csharp.py).  A source line is a *)
(* sequence of tokens: the marker "///", tags, and single characters.      *)
(***************************************************************************)
DocMarker == "///"

OpenTags == { "<summary>", "<param>", "<returns>", "<exception>", "<b>" }
CloseTags == { "</summary>", "</param>", "</returns>", "</exception>", "</b>" }

\* the element name of a tag
TagName(t) ==
    CASE t \in { "<summary>", "</summary>" } -> "summary"
      [] t \in { "<param>", "</param>" } -> "param"
      [] t \in { "<returns>", "</returns>" } -> "returns"
      [] t \in { "<exception>", "</exception>" } -> "exception"
      [] OTHER -> "b"

\* csharp.py:256  the tokens that hold '<summary', '<param', '<returns' or
\* '<exception'
RecognizedTags == { "<summary>", "<param>", "<returns>", "<exception>" }

\* the lines above a declaration
XmlSourceLines ==
    { << DocMarker, " ", "<summary>", "a", "</summary>" >>,
      << DocMarker, " ", "<summary>" >>,
      << DocMarker, " ", "a" >>,
      << DocMarker, " ", "</summary>" >>,
      << " ", DocMarker, "<returns>", "-", " ", "a", "</returns>", " " >>,
      << DocMarker, "<param>", "a", "</param>" >>,
      << DocMarker, "<b>", "&" >>,
      << >>,
      << "[", "a", "]" >>,
      << "a" >> }

\* str.strip() where the text may hold line breaks
RECURSIVE StripSpace(_)
StripSpace(s) ==
    IF s = << >> THEN s
    ELSE IF IsSpace(s[1]) THEN StripSpace(Tail(s))
    ELSE IF IsSpace(s[Len(s)]) THEN StripSpace(SubSeq(s, 1, Len(s) - 1))
    ELSE s

\* str.lstrip('/')
RECURSIVE LStripSlashes(_)
LStripSlashes(s) ==
    IF s # << >> /\ s[1] \in { DocMarker, "/" } THEN LStripSlashes(Tail(s)) ELSE s

\* csharp.py:225-248  the upward scan from line idx: buf, in the order of
\* collection
RECURSIVE CollectUp(_, _)
CollectUp(lines, at) ==
    IF at < 1 THEN << >>
    ELSE LET txt == StripSpace(lines[at])
         IN  IF txt # << >> /\ txt[1] = DocMarker
             THEN << StripSpace(LStripSlashes(txt)) >> \o CollectUp(lines, at - 1)
             ELSE IF txt = << >> THEN CollectUp(lines, at - 1)
             ELSE IF txt[1] = "[" /\ txt[Len(txt)] = "]" THEN CollectUp(lines, at - 1)
             ELSE << >>

\* buf.reverse()
Reversed(s) == [i \in 1..Len(s) |-> s[Len(s) + 1 - i]]

\* csharp.py:264  ET.fromstring('<root>\n' + raw + '\n</root>') succeeds:
\* tags are balanced and nested, and there is no bare '&'
RECURSIVE WellFormed(_, _)
WellFormed(raw, open) ==
    IF raw = << >> THEN open = << >>
    ELSE IF raw[1] \in OpenTags THEN WellFormed(Tail(raw), << TagName(raw[1]) >> \o open)
    ELSE IF raw[1] \in CloseTags
         THEN /\ open # << >>
              /\ open[1] = TagName(raw[1])
              /\ WellFormed(Tail(raw), Tail(open))
    ELSE IF raw[1] = "&" THEN FALSE
    ELSE WellFormed(Tail(raw), open)

\* the position of the close tag of the element opened before position i
RECURSIVE MatchingClose(_, _, _)
MatchingClose(raw, i, nesting) ==
    IF raw[i] \in OpenTags THEN MatchingClose(raw, i + 1, nesting + 1)
    ELSE IF raw[i] \in CloseTags
         THEN IF nesting = 0 THEN i ELSE MatchingClose(raw, i + 1, nesting - 1)
    ELSE MatchingClose(raw, i + 1, nesting)

\* the children of root, for a well-formed raw: tag and content
RECURSIVE RootChildren(_, _)
RootChildren(raw, i) ==
    IF i > Len(raw) THEN << >>
    ELSE IF raw[i] \in OpenTags
         THEN LET close == MatchingClose(raw, i + 1, 0)
              IN  << [tag |-> TagName(raw[i]), inner |-> SubSeq(raw, i + 1, close - 1)] >>
                  \o RootChildren(raw, close + 1)
    ELSE RootChildren(raw, i + 1)

\* the runs of character data of an element's content, in document order
RECURSIVE TextRuns(_, _)
TextRuns(inner, run) ==
    IF inner = << >> THEN << run >>
    ELSE IF inner[1] \in OpenTags \cup CloseTags THEN << run >> \o TextRuns(Tail(inner), << >>)
    ELSE TextRuns(Tail(inner), run \o << inner[1] >>)

\* csharp.py:328-375  _xml_node_to_text for elements without attributes:
\* the non-blank runs, stripped, joined by a blank
XmlNodeToText(inner) ==
    LET runs == TextRuns(inner, << >>)
        stripped == [i \in DOMAIN runs |-> StripSpace(runs[i])]
    IN  JoinBlank(SelectSeq(stripped, LAMBDA r : r # << >>))

WithTag(children, tag) == SelectSeq(children, LAMBDA c : c.tag = tag)

\* '- ' + text, for every element of the list
BulletItems(children) ==
    [i \in DOMAIN children |-> << "-", " " >> \o StripSpace(XmlNodeToText(children[i].inner))]

\* csharp.py:268-326  the text built from a parsed root; the blank lines at
\* the end are dropped
FormatXml(children) ==
    LET summary == WithTag(children, "summary")
        params == WithTag(children, "param")
        returns == WithTag(children, "returns")
        exceptions == WithTag(children, "exception")
        txts == IF summary = << >> THEN << >> ELSE StripSpace(XmlNodeToText(summary[1].inner))
        txtr == IF returns = << >> THEN << >> ELSE StripSpace(XmlNodeToText(returns[1].inner))
    IN  DropLastEmpty(
            (IF txts # << >> THEN << txts, << >> >> ELSE << >>)
            \o (IF params # << >> THEN << << "*Params:*" >> >> \o BulletItems(params) \o << << >> >>
                ELSE << >>)
            \o (IF txtr # << >>
                THEN << << "*Returns:*" >>, << "-", " " >> \o RemoveAll(txtr, << "-", " " >>), << >> >>
                ELSE << >>)
            \o (IF exceptions # << >>
                THEN << << "*Exceptions:*" >> >> \o BulletItems(exceptions) \o << << >> >>
                ELSE << >>))

\* faulty variant: the parse error escapes
CollectXmlDoc_NoCatch(lines, start_idx) ==
    LET buf == CollectUp(lines, start_idx)
        raw == JoinLines(Reversed(buf))
    IN  IF buf = << >> THEN [kind |-> "none", text |-> << >>]
        ELSE IF ~\E i \in DOMAIN raw : raw[i] \in RecognizedTags
             THEN [kind |-> "raw", text |-> raw]
        ELSE IF ~WellFormed(raw, << >>) THEN [kind |-> "raise", text |-> << >>]
        ELSE [kind |-> "xml", text |-> JoinLines(FormatXml(RootChildren(raw, 1)))]

\* csharp.py:195-326  _collect_xml_doc(lines, start_idx), the scan starting
\* at the line above the declaration
CollectXmlDoc(lines, start_idx) ==
    LET buf == CollectUp(lines, start_idx)
        raw == JoinLines(Reversed(buf))
    IN  IF buf = << >> THEN [kind |-> "none", text |-> << >>]
        ELSE IF ~\E i \in DOMAIN raw : raw[i] \in RecognizedTags
             THEN [kind |-> "raw", text |-> raw]
        ELSE IF ~WellFormed(raw, << >>) THEN [kind |-> "raw", text |-> raw]
        ELSE [kind |-> "xml", text |-> JoinLines(FormatXml(RootChildren(raw, 1)))]

InitXmlDoc ==
    /\ pc = "idle"
    /\ call = NoValue
    /\ result = NoValue
    /\ modules = << >>
    /\ PipelineIdle /\ ResolverIdle /\ SlocIdle /\ HotspotsIdle

\* csharp.py:94  cls_doc = _collect_xml_doc(lines, cls_lineno - 1): the
\* declaration follows the given lines
CallCollectXmlDoc ==
    /\ pc = "idle"
    /\ \E lines \in UNION { [1..k -> XmlSourceLines] : k \in 0..MaxLines } :
          /\ call' = [fn |-> "_collect_xml_doc", lines |-> lines, start_idx |-> Len(lines)]
          /\ result' = CollectXmlDoc(lines, Len(lines))
    /\ pc' = "returned"
    /\ UNCHANGED << scanVars, loopVars, pipelineVars, resolverVars, slocVars, hotspotVars >>

NextXmlDoc == CallCollectXmlDoc

SpecXmlDoc == InitXmlDoc /\ [][NextXmlDoc]_vars

XmlDocReturned == pc = "returned" /\ call.fn = "_collect_xml_doc"

\* the collected comment text: the collected lines joined in source order
RawCollected == JoinLines(Reversed(CollectUp(call.lines, call.start_idx)))

HasRecognizedTag(raw) == \E i \in DOMAIN raw : raw[i] \in RecognizedTags

\* C20: when the collected comment text holds a recognized tag but does
\* not parse as markup inside a synthetic root, or holds no recognized tag
\* at all, the result is exactly the raw collected text and no exception
\* escapes.
C20_RawTextOnParseFailureOrNoTag ==
    (/\ XmlDocReturned
     /\ CollectUp(call.lines, call.start_idx) # << >>
     /\ (~HasRecognizedTag(RawCollected) \/ ~WellFormed(RawCollected, << >>))) =>
        /\ result.kind = "raw"
        /\ result.text = RawCollected

\* two collected lines with an opening <summary> that is never closed came
\* back as the raw text
C20_Witness ==
    /\ XmlDocReturned
    /\ Len(CollectUp(call.lines, call.start_idx)) >= 2
    /\ HasRecognizedTag(RawCollected)
    /\ ~WellFormed(RawCollected, << >>)
    /\ result.text = RawCollected
    /\ Contains(result.text, << LineBreak >>)

(***************************************************************************)
(* analyze_csharp (csharp.py).  The source is a sequence of tokens: line   *)
(* break, blank, punctuation, and words (a run of adjacent words is one    *)
(* identifier).                                                            *)
(***************************************************************************)
\* \w
IsWord(t) == t \in { "public", "static", "class", "int", "A", "M", "a" }
\* csharp.py:27, 35  (?:public|internal|protected|private)
IsAccess(t) == t \in { "public" }
\* csharp.py:28  (?:abstract|sealed|static|partial)
IsClassModifier(t) == t \in { "static" }
\* csharp.py:29  (class|record|struct|interface)
IsKind(t) == t \in { "class" }
\* csharp.py:37, 45  [\w<>\[\],\s]
IsTypeChar(t) == IsWord(t) \/ IsSpace(t) \/ t \in { "[", "]" }

\* the element of a one-element set: { e(x) : x \in { v } } computes v once
\* and e once, however often e names x
Only(S) == CHOOSE x \in S : TRUE

\* the lines a C# file is made of here
CsharpSourceLines ==
    { << >>,
      << "class", " ", "A" >>,
      << "public", " ", "class", " ", "A", " ", "{" >>,
      << "}" >>,
      << " ", "public", " ", "int", " ", "M", "(", ")", " ", "{", " ", "}" >>,
      << "public", " ", "int", " ", "M", ";" >>,
      << "public", " ", "A", "(", ")", " ", "{", "}" >> }

\* src.splitlines()
RECURSIVE SplitLines(_, _)
SplitLines(src, line) ==
    IF src = << >> THEN (IF line = << >> THEN << >> ELSE << line >>)
    ELSE IF src[1] = LineBreak THEN << line >> \o SplitLines(Tail(src), << >>)
    ELSE SplitLines(Tail(src), line \o << src[1] >>)

\* src.count('\n', 0, start) + 1, for the token at position pos
LineNo(src, pos) == 1 + Cardinality({ i \in 1..(pos - 1) : src[i] = LineBreak })

\* ^ under re.MULTILINE
AtLineStart(src, i) == i = 1 \/ src[i - 1] = LineBreak

\* the end of the run of words / of type characters that starts at i
RECURSIVE WordEnd(_, _)
WordEnd(src, i) == IF i <= Len(src) /\ IsWord(src[i]) THEN WordEnd(src, i + 1) ELSE i
RECURSIVE TypeEnd(_, _)
TypeEnd(src, i) == IF i <= Len(src) /\ IsTypeChar(src[i]) THEN TypeEnd(src, i + 1) ELSE i

Is(src, i, P(_)) == i <= Len(src) /\ P(src[i])
TokenAt(src, i, t) == i <= Len(src) /\ src[i] = t

NoMatch == [found |-> FALSE, name |-> << >>, start |-> 0, end |-> 0]

\* csharp.py:26-31  CLASS_RE matched at the line start i
ClassMatch(src, i) ==
    LET access == SkipSpaces(src, i)
        modifier == SkipSpaces(src, IF Is(src, access, IsAccess) THEN access + 1 ELSE access)
        kind == SkipSpaces(src, IF Is(src, modifier, IsClassModifier) THEN modifier + 1 ELSE modifier)
        name == SkipSpaces(src, kind + 1)
    IN  IF /\ AtLineStart(src, i)
           /\ Is(src, kind, IsKind)
           /\ name > kind + 1
           /\ Is(src, name, IsWord)
        THEN [found |-> TRUE, name |-> SubSeq(src, name, WordEnd(src, name) - 1),
              start |-> i, end |-> WordEnd(src, name)]
        ELSE NoMatch

\* the first ')' from position i on (0 when there is none)
RECURSIVE FirstToken(_, _, _)
FirstToken(src, i, t) ==
    IF i > Len(src) THEN 0 ELSE IF src[i] = t THEN i ELSE FirstToken(src, i + 1, t)

\* \([^)]*\)\s*{?  from the '(' at position open: the end of the match
\* (0 when the ')' is missing)
ParamsEnd(src, open) ==
    LET close == FirstToken(src, open, ")")
        brace == SkipSpaces(src, close + 1)
    IN  IF close = 0 THEN 0
        ELSE IF TokenAt(src, brace, "{") THEN brace + 1 ELSE brace

\* the start of the run of words that ends before position e
RECURSIVE WordStart(_, _)
WordStart(src, e) == IF e > 1 /\ IsWord(src[e - 1]) THEN WordStart(src, e - 1) ELSE e

\* the end of the blanks before position e
RECURSIVE BlanksStart(_, _)
BlanksStart(src, e) == IF e > 1 /\ IsSpace(src[e - 1]) THEN BlanksStart(src, e - 1) ELSE e

\* csharp.py:35-37, 44-46  access modifier, type and name of a member:
\* \s*(?:...)*[\w<>\[\],\s]+\s+([A-Za-z_][A-Za-z0-9_]*)\s* up to the
\* character that ends the run of type characters
MemberHead(block, i) ==
    LET access == SkipSpaces(block, i)
        stop == TypeEnd(block, access + 1)
        nameEnd == BlanksStart(block, stop)
        nameStart == WordStart(block, nameEnd)
    IN  IF /\ AtLineStart(block, i)
           /\ Is(block, access, IsAccess)
           /\ nameStart < nameEnd
           /\ nameStart >= access + 3
           /\ IsSpace(block[nameStart - 1])
        THEN [found |-> TRUE, name |-> SubSeq(block, nameStart, nameEnd - 1), stop |-> stop]
        ELSE [found |-> FALSE, name |-> << >>, stop |-> 0]

\* csharp.py:34-39  METHOD_RE matched at the line start i
MethodMatch(block, i) ==
    LET head == MemberHead(block, i)
    IN  IF head.found /\ TokenAt(block, head.stop, "(") /\ ParamsEnd(block, head.stop) # 0
        THEN [found |-> TRUE, name |-> head.name, start |-> i, end |-> ParamsEnd(block, head.stop)]
        ELSE NoMatch

\* csharp.py:42-48  ATTRIBUTE_RE matched at the line start i: the name is
\* followed by {...}, =>, = or ;
AttributeMatch(block, i) ==
    LET head == MemberHead(block, i)
        close == FirstToken(block, head.stop, "}")
    IN  IF head.found /\ (TokenAt(block, head.stop, ";") \/ TokenAt(block, head.stop, "="))
        THEN [found |-> TRUE, name |-> head.name, start |-> i, end |-> head.stop + 1]
        ELSE IF head.found /\ TokenAt(block, head.stop, "{") /\ close # 0
        THEN [found |-> TRUE, name |-> head.name, start |-> i, end |-> close + 1]
        ELSE NoMatch

\* csharp.py:128-133  CTOR_RE matched at the line start i, the name being
\* the class name
CtorFrom(block, i, name, cls_name) ==
    LET open == SkipSpaces(block, name + Len(cls_name))
    IN  IF /\ name + Len(cls_name) - 1 <= Len(block)
           /\ SubSeq(block, name, name + Len(cls_name) - 1) = cls_name
           /\ TokenAt(block, open, "(")
           /\ ParamsEnd(block, open) # 0
        THEN [found |-> TRUE, name |-> cls_name, start |-> i, end |-> ParamsEnd(block, open)]
        ELSE NoMatch
CtorMatch(block, i, cls_name) ==
    LET access == SkipSpaces(block, i)
        first == SkipSpaces(block, access + 1)
        second == SkipSpaces(block, first + 1)
    IN  IF ~(AtLineStart(block, i) /\ Is(block, access, IsAccess)) THEN NoMatch
        ELSE IF TokenAt(block, first, "static") /\ second > first + 1
                /\ CtorFrom(block, i, second, cls_name).found
        THEN CtorFrom(block, i, second, cls_name)
        ELSE CtorFrom(block, i, first, cls_name)

MemberMatch(which, block, i, cls_name) ==
    CASE which = "ctor" -> CtorMatch(block, i, cls_name)
      [] which = "method" -> MethodMatch(block, i)
      [] OTHER -> AttributeMatch(block, i)

\* RE.finditer(class_block): the matches from position i on
RECURSIVE MemberMatches(_, _, _, _)
MemberMatches(which, block, i, cls_name) ==
    IF i > Len(block) THEN << >>
    ELSE Only({ IF m.found THEN << m >> \o MemberMatches(which, block, m.end, cls_name)
                ELSE MemberMatches(which, block, i + 1, cls_name) :
                m \in { MemberMatch(which, block, i, cls_name) } })

\* CLASS_RE.finditer(src): the matches from position i on
RECURSIVE ClassMatches(_, _)
ClassMatches(src, i) ==
    IF i > Len(src) THEN << >>
    ELSE Only({ IF m.found THEN << m >> \o ClassMatches(src, m.end)
                ELSE ClassMatches(src, i + 1) :
                m \in { ClassMatch(src, i) } })

\* csharp.py:395-412  _collect_decorators(lines, start_idx): the attribute
\* lines above, in the order of collection
RECURSIVE DecoratorsUp(_, _)
DecoratorsUp(lines, at) ==
    IF at < 1 THEN << >>
    ELSE LET txt == StripSpace(lines[at])
         IN  IF txt # << >> /\ txt[1] = "[" /\ txt[Len(txt)] = "]"
             THEN << txt >> \o DecoratorsUp(lines, at - 1)
             ELSE IF txt # << >> /\ txt[1] = DocMarker THEN DecoratorsUp(lines, at - 1)
             ELSE << >>

\* csharp.py:377-414  _collect_decorators
CollectDecorators(lines, start_idx) == Reversed(DecoratorsUp(lines, start_idx))

\* csharp.py:112-126  the block scan from position i with the depth
\* reached so far: idx_end
RECURSIVE BlockEnd(_, _, _)
BlockEnd(src, i, d) ==
    IF i > Len(src) THEN Len(src) + 1
    ELSE IF src[i] = "{" THEN BlockEnd(src, i + 1, d + 1)
    ELSE IF src[i] = "}" THEN (IF d - 1 = 0 THEN i ELSE BlockEnd(src, i + 1, d - 1))
    ELSE BlockEnd(src, i + 1, d)

\* csharp.py:141-183  the members found in the class block that starts at
\* idx_brace: name, line and documentation of each
Members(which, src, lines, idx_brace, class_block, cls_name) ==
    Only({ [k \in DOMAIN found |->
              Only({ [name |-> found[k].name, lineno |-> lineno,
                      doc |-> CollectXmlDoc(lines, lineno - 1),
                      decorators |-> IF which = "method"
                                     THEN CollectDecorators(lines, lineno - 1) ELSE << >>] :
                     lineno \in { LineNo(src, idx_brace + found[k].start - 1) } })] :
           found \in { MemberMatches(which, class_block, 1, cls_name) } })

\* csharp.py:87-185  one iteration of `for cls_match in CLASS_RE.finditer(src)`
ClassInfoOf(src, lines, cls_match) ==
    Only({ LET idx_end == BlockEnd(src, idx_brace, 0)
               header == [name |-> cls_match.name, lineno |-> cls_lineno,
                          doc |-> CollectXmlDoc(lines, cls_lineno - 1),
                          decorators |-> CollectDecorators(lines, cls_lineno - 1)]
           IN  IF idx_brace = 0
               THEN [info |-> header, warned |-> TRUE, idx_brace |-> 0, idx_end |-> 0,
                     methods |-> << >>, attributes |-> << >>]
               ELSE Only({ [info |-> header, warned |-> FALSE,
                            idx_brace |-> idx_brace, idx_end |-> idx_end,
                            methods |-> Members("ctor", src, lines, idx_brace, class_block, cls_match.name)
                                        \o Members("method", src, lines, idx_brace, class_block, cls_match.name),
                            attributes |-> Members("attribute", src, lines, idx_brace, class_block, cls_match.name)] :
                           class_block \in { SubSeq(src, idx_brace, idx_end - 1) } }) :
           cls_lineno \in { LineNo(src, cls_match.start) },
           idx_brace \in { FirstToken(src, cls_match.end, "{") } })

\* faulty variant: the first header without '{' ends the analysis
AnalyzeCsharp_StopsAtMissingBrace(src) ==
    Only({ LET braced == { k \in DOMAIN found :
                            \A j \in 1..k : FirstToken(src, found[j].end, "{") # 0 }
           IN  [classes |-> [k \in 1..Cardinality(braced) |-> ClassInfoOf(src, lines, found[k])],
                imports |-> CollectUsings(src)] :
           found \in { ClassMatches(src, 1) }, lines \in { SplitLines(src, << >>) } })

\* csharp.py:52-193  analyze_csharp: the classes, in the order of their
\* headers (the metrics are those of module_metrics)
AnalyzeCsharp(src) ==
    Only({ [classes |-> [k \in DOMAIN found |-> ClassInfoOf(src, lines, found[k])],
            imports |-> CollectUsings(src)] :
           found \in { ClassMatches(src, 1) }, lines \in { SplitLines(src, << >>) } })

\* the sources: up to MaxLines lines
AnalyzedSources ==
    { JoinLines(ls) : ls \in UNION { [1..k -> CsharpSourceLines] : k \in 0..MaxLines } }

InitCsharp ==
    /\ pc = "idle"
    /\ call = NoValue
    /\ result = NoValue
    /\ modules = << >>
    /\ PipelineIdle /\ ResolverIdle /\ SlocIdle /\ HotspotsIdle

\* execute.py: analyze_file hands a C# file to analyze_csharp; a class
\* without '{' is logged as a warning
CallAnalyzeCsharp ==
    /\ pc = "idle"
    /\ \E src \in AnalyzedSources :
          \E module \in { AnalyzeCsharp(src) } :
              /\ call' = [fn |-> "analyze_csharp", src |-> src]
              /\ result' = module
              /\ diagnostics' = Len(SelectSeq(module.classes, LAMBDA c : c.warned))
    /\ pc' = "returned"
    /\ UNCHANGED << files, fails, idx, modules, attempted, stages >>
    /\ UNCHANGED << scanVars, loopVars, resolverVars, slocVars, hotspotVars >>

NextCsharp == CallAnalyzeCsharp

SpecCsharp == InitCsharp /\ [][NextCsharp]_vars

CsharpReturned == pc = "returned" /\ call.fn = "analyze_csharp"

\* the class headers of the analyzed source, in source order
Headers == ClassMatches(call.src, 1)

\* no '{' occurs anywhere after the header
NoBraceAfter(header) == \A i \in header.end..Len(call.src) : call.src[i] # "{"

\* C21: a class header with no '{' anywhere after it is still recorded,
\* with empty method and attribute lists and one warning, no error is
\* raised, and the remaining headers are processed.
C21_HeaderWithoutBraceRecorded ==
    CsharpReturned =>
        /\ Len(result.classes) = Len(Headers)
        /\ \A k \in DOMAIN Headers :
              /\ result.classes[k].info.name = Headers[k].name
              /\ NoBraceAfter(Headers[k]) =>
                    /\ result.classes[k].methods = << >>
                    /\ result.classes[k].attributes = << >>
        /\ diagnostics = Cardinality({ k \in DOMAIN Headers : NoBraceAfter(Headers[k]) })

\* a class with a body, then two headers without '{': all three recorded,
\* two warnings
C21_Witness ==
    /\ CsharpReturned
    /\ Len(result.classes) = 3
    /\ ~NoBraceAfter(Headers[1])
    /\ NoBraceAfter(Headers[2])
    /\ result.classes[3].methods = << >>
    /\ diagnostics = 2

(***************************************************************************)
(* The block scan of analyze_csharp (csharp.py:106-126), one loop          *)
(* iteration per step.  Positions are 1-based: Len(src) + 1 stands for     *)
(* len(src).                                                               *)
(***************************************************************************)

\* the sample lines that hold a type header or a brace
BraceSourceLines ==
    { l \in CsharpSourceLines : \E i \in DOMAIN l : l[i] \in { "class", "{", "}" } }

BraceSources ==
    { JoinLines(ls) : ls \in UNION { [1..k -> BraceSourceLines] : k \in 0..MaxLines } }

InitBraces ==
    /\ pc = "idle"
    /\ call = NoValue
    /\ result = NoValue
    /\ modules = << >>
    /\ PipelineIdle /\ ResolverIdle /\ SlocIdle /\ HotspotsIdle

\* csharp.py:106-115  idx_brace = src.find('{', cls_match.end()) is found;
\* depth = 0, idx = idx_brace, idx_end = len(src)
FindBrace ==
    /\ pc = "idle"
    /\ \E src \in BraceSources :
          \E k \in DOMAIN ClassMatches(src, 1) :
             LET cls_match == ClassMatches(src, 1)[k]
                 idx_brace == FirstToken(src, cls_match.end, "{")
             IN  /\ idx_brace # 0
                 /\ call' = [fn |-> "block_scan", src |-> src, header |-> cls_match]
                 /\ idx' = idx_brace
                 /\ result' = [idx_brace |-> idx_brace, idx_end |-> Len(src) + 1]
    /\ depth' = 0
    /\ pc' = "scan"
    /\ UNCHANGED << files, fails, modules, attempted, diagnostics, stages >>
    /\ UNCHANGED << scanVars, idx_local, consumed, resolverVars, slocVars, hotspotVars >>

\* faulty variant: the scan goes on after the depth has returned to zero
ScanBrace_NoBreak ==
    /\ pc = "scan"
    /\ idx <= Len(call.src)
    /\ depth' = IF call.src[idx] = "{" THEN depth + 1
                ELSE IF call.src[idx] = "}" THEN depth - 1 ELSE depth
    /\ idx' = idx + 1
    /\ UNCHANGED << pc, result >>
    /\ UNCHANGED << files, fails, modules, attempted, diagnostics, stages, call >>
    /\ UNCHANGED << scanVars, idx_local, consumed, resolverVars, slocVars, hotspotVars >>

\* csharp.py:117-129  one iteration of `while idx < len(src)`
ScanBrace ==
    /\ pc = "scan"
    /\ idx <= Len(call.src)
    /\ IF call.src[idx] = "{"
       THEN /\ depth' = depth + 1
            /\ idx' = idx + 1
            /\ UNCHANGED << pc, result >>
       ELSE IF call.src[idx] = "}"
       THEN /\ depth' = depth - 1
            /\ IF depth - 1 = 0
               THEN /\ result' = [result EXCEPT !.idx_end = idx]
                    /\ pc' = "block"
                    /\ UNCHANGED idx
               ELSE /\ idx' = idx + 1
                    /\ UNCHANGED << pc, result >>
       ELSE /\ idx' = idx + 1
            /\ UNCHANGED << pc, result, depth >>
    /\ UNCHANGED << files, fails, modules, attempted, diagnostics, stages, call >>
    /\ UNCHANGED << scanVars, idx_local, consumed, resolverVars, slocVars, hotspotVars >>

\* csharp.py:117  the loop condition fails: idx_end stays len(src)
EndScan ==
    /\ pc = "scan"
    /\ idx > Len(call.src)
    /\ pc' = "block"
    /\ UNCHANGED << files, fails, idx, modules, attempted, diagnostics, stages, call, result >>
    /\ UNCHANGED << scanVars, loopVars, resolverVars, slocVars, hotspotVars >>

NextBraces == FindBrace \/ ScanBrace \/ EndScan

SpecBraces == InitBraces /\ [][NextBraces]_vars

\* the loop runs in the thread of analyze_csharp with nothing to wait
\* for: an iteration that can be taken is taken
FairSpecBraces == SpecBraces /\ WF_vars(ScanBrace \/ EndScan)

\* +1 per '{', -1 per '}' over the positions from..to of the source
RunningDepth(from, to) ==
    Cardinality({ i \in from..to : call.src[i] = "{" })
        - Cardinality({ i \in from..to : call.src[i] = "}" })

\* the positions of the '}' at which the running depth is zero
Closers ==
    { i \in result.idx_brace..Len(call.src) :
        call.src[i] = "}" /\ RunningDepth(result.idx_brace, i) = 0 }

Scanning == pc \in { "scan", "block" } /\ call.fn = "block_scan"

\* C25: the class block starts at the first '{' after the header and ends
\* at the first '}' at which the running depth returns to zero; the depth
\* is never negative during the scan; the scan terminates; when the depth
\* never returns to zero the block extends to the end of the source.
C25_BlockIsBalancedSpan ==
    /\ [](Scanning =>
            /\ depth >= 0
            /\ call.src[result.idx_brace] = "{"
            /\ \A i \in call.header.end..(result.idx_brace - 1) : call.src[i] # "{")
    /\ []((Scanning /\ pc = "block") =>
            /\ Closers # {} => /\ result.idx_end \in Closers
                               /\ \A i \in Closers : result.idx_end <= i
            /\ Closers = {} => result.idx_end = Len(call.src) + 1)
    /\ [](pc = "scan" => <>(pc = "block"))

\* a block with a nested pair of braces, closed before the end of the source
C25_Witness ==
    /\ Scanning /\ pc = "block"
    /\ result.idx_end < Len(call.src)
    /\ \E i \in (result.idx_brace + 1)..(result.idx_end - 1) : call.src[i] = "{"
    /\ depth = 0

\* the 1-based line on which the text of the match that starts at
\* position start begins: the line of its first token that is not a blank
TextLine(src, start) == LineNo(src, SkipSpaces(src, start))

\* the lines on which the members of one kind of class k begin
MemberTextLines(which, k) ==
    LET class == result.classes[k]
        block == SubSeq(call.src, class.idx_brace, class.idx_end - 1)
        found == MemberMatches(which, block, 1, class.info.name)
    IN  [j \in DOMAIN found |->
            LineNo(call.src, class.idx_brace + SkipSpaces(block, found[j].start) - 1)]

RecordedLines(members) == [j \in DOMAIN members |-> members[j].lineno]

\* C26: the line recorded for every class, constructor, method and
\* attribute is the 1-based line on which the declaration's own text
\* begins, blank lines before the declaration included.
C26_LinenoIsDeclarationLine ==
    CsharpReturned =>
        \A k \in DOMAIN Headers :
            /\ result.classes[k].info.lineno = TextLine(call.src, Headers[k].start)
            /\ ~result.classes[k].warned =>
                  /\ RecordedLines(result.classes[k].methods)
                        = MemberTextLines("ctor", k) \o MemberTextLines("method", k)
                  /\ RecordedLines(result.classes[k].attributes)
                        = MemberTextLines("attribute", k)

\* a documentation-comment line / an attribute line
IsDocLine(line) == StripSpace(line) # << >> /\ StripSpace(line)[1] = DocMarker
IsAttributeLine(line) ==
    LET txt == StripSpace(line)
    IN  txt # << >> /\ txt[1] = "[" /\ txt[Len(txt)] = "]"

\* the lines of the unbroken run of documentation and attribute lines that
\* ends directly above the declaration
ContiguousAbove ==
    { i \in 1..call.start_idx :
        \A j \in i..call.start_idx : IsDocLine(call.lines[j]) \/ IsAttributeLine(call.lines[j]) }

\* the text of the documentation lines of that run, in source order
ContiguousDoc ==
    LET docs == SelectSeq([i \in 1..call.start_idx |-> i],
                          LAMBDA i : i \in ContiguousAbove /\ IsDocLine(call.lines[i]))
    IN  [k \in DOMAIN docs |-> StripSpace(LStripSlashes(StripSpace(call.lines[docs[k]])))]

\* C24: the upward documentation scan starts at the line directly above
\* the declaration and stops at the first line that is neither a '///'
\* line nor a '[...]' line; nothing above that line is included (a comment
\* separated from the declaration by a blank line is not), and the
\* collected lines are in source order.
C24_DocIsContiguousRunAbove ==
    XmlDocReturned =>
        /\ RawCollected = JoinLines(ContiguousDoc)
        /\ (result.kind = "none") <=> (ContiguousDoc = << >>)

(***************************************************************************)
(* dependencies_map (maps.py:18-36): the lookup of _physical_paths and the *)
(* graph of _resolve_imports, for both frameworks.  A module path is the   *)
(* sequence of the tokens of its path below the repository root.           *)
(***************************************************************************)
\* the files a Python / a C# repository may hold
PythonFiles == { << "a", ".py" >>, << "b", ".py" >>, << "a", "/", "a", ".py" >> }
CsharpFiles == { << "A", ".cs" >>, << "B", ".cs" >> }

\* the import strings a C# module may carry: namespaces, tagged or not
CsharpImports == Idents \cup { NamespaceMarker \o ns : ns \in Idents }

\* the import lists of a module: no import, one import, and for C# a
\* namespace in both forms
ImportSetsOf(fw) ==
    IF fw = "python" THEN { {} } \cup { { imp } : imp \in Idents }
    ELSE { {} } \cup { { imp } : imp \in CsharpImports }
             \cup { { ns, NamespaceMarker \o ns } : ns \in Idents }

\* module lists of one framework: distinct paths, each with its imports
ModuleListsOf(fw) ==
    LET sources == IF fw = "python" THEN PythonFiles ELSE CsharpFiles
    IN  UNION { { [i \in DOMAIN ord |-> [path |-> ord[i], imports |-> imps[i]]] :
                    imps \in [DOMAIN ord -> ImportSetsOf(fw)] } :
                ord \in UNION { Orderings(T) : T \in SUBSET sources } }

\* maps.py:144-145  relative.with_suffix('').as_posix().replace('/', '.')
DottedName(path) ==
    [i \in 1..(Len(path) - 1) |-> IF path[i] = "/" THEN "." ELSE path[i]]

\* maps.py:139-141  the namespaces of the imports that carry the marker
TaggedNamespaces(module) ==
    { SubSeq(imp, Len(NamespaceMarker) + 1, Len(imp)) :
        imp \in { i \in module.imports : StartsWith(i, NamespaceMarker) } }

\* maps.py:137-146  the identifiers one module is filed under
IdentifiersOf(module, fw) ==
    IF fw = "csharp" THEN TaggedNamespaces(module) ELSE { DottedName(module.path) }

\* faulty variant: the lookup files a module under its dotted name
PhysicalPathsOf_Names(mods, fw) ==
    LET keys == UNION { IdentifiersOf(mods[i], fw) : i \in DOMAIN mods }
    IN  [ name \in keys |->
            { DottedName(mods[i].path) :
                i \in { j \in DOMAIN mods : name \in IdentifiersOf(mods[j], fw) } } ]

\* maps.py:110-150  _physical_paths(modules, repository, framework)
PhysicalPathsOf(mods, fw) ==
    LET keys == UNION { IdentifiersOf(mods[i], fw) : i \in DOMAIN mods }
    IN  [ name \in keys |->
            { mods[i].path :
                i \in { j \in DOMAIN mods : name \in IdentifiersOf(mods[j], fw) } } ]

\* maps.py:18-36  dependencies_map(modules, repository, framework)
DependenciesMapOf(mods, fw) == ResolveImports(mods, PhysicalPathsOf(mods, fw))

InitDepMap ==
    /\ pc = "map"
    /\ framework \in { "python", "csharp" }
    /\ modules \in ModuleListsOf(framework)
    /\ paths = << >>
    /\ dep_map = << >>
    /\ count = 0 /\ in_block = FALSE /\ loc = 0 /\ metrics = NoValue
    /\ PipelineIdle /\ NumsIdle /\ HotspotsIdle

\* maps.py:35-36  paths = _physical_paths(...); return _resolve_imports(...)
MapDependencies ==
    /\ pc = "map"
    /\ paths' = PhysicalPathsOf(modules, framework)
    /\ dep_map' = DependenciesMapOf(modules, framework)
    /\ pc' = "mapped"
    /\ UNCHANGED << scanVars, loopVars, pipelineVars, slocVars, numsVars, hotspotVars >>

NextDepMap == MapDependencies

SpecDepMap == InitDepMap /\ [][NextDepMap]_vars

Mapped == pc = "mapped" /\ framework \in { "python", "csharp" }

\* the modules of the list that declare the import of namespace ns
Declaring(ns) ==
    { i \in DOMAIN modules : NamespaceMarker \o ns \in modules[i].imports }

\* C22: for the brace-delimited language, when two distinct modules A and
\* B both provide namespace N in the lookup built from their tagged
\* namespace imports and A declares the import of N, the dependency graph
\* holds the edge A -> B.
C22_NamespaceImportResolves ==
    (Mapped /\ framework = "csharp") =>
        \A ns \in DOMAIN paths :
            \A a \in Declaring(ns), b \in DOMAIN modules :
                (modules[a].path \in paths[ns] /\ modules[b].path \in paths[ns] /\ a # b)
                    => modules[b].path \in dep_map[modules[a].path]

\* C27: the graph returned by the resolver is closed: its keys are the
\* paths of the module list and every target is one of its keys, so that
\* internal_dependencies never meets a target that is not a key.
C27_GraphIsClosed ==
    Mapped =>
        /\ DOMAIN dep_map = ModulePathSet
        /\ \A src \in DOMAIN dep_map : dep_map[src] \subseteq DOMAIN dep_map
        /\ \A order \in Orderings(DOMAIN dep_map) :
              /\ FirstDangling(order, dep_map) = << >>
              /\ DepMapAfter(order, dep_map) = dep_map

\* three modules, two of them with a resolved dependency
C27_Witness ==
    /\ Mapped
    /\ Cardinality(DOMAIN dep_map) = 3
    /\ Cardinality({ src \in DOMAIN dep_map : dep_map[src] # {} }) >= 2

(***************************************************************************)
(* The aggregation stages of render_report (report.py:46-47):              *)
(* dependencies_map and repository_metrics on one module list.             *)
(***************************************************************************)
\* what a parsed module holds besides its path and imports: metrics (None
\* for a module without metrics) and the classes with their documentation
Blank == DocText(<< << " " >> >>)
Described == DocText(<< << "a" >> >>)
ModuleShapes ==
    { [metrics |-> NoValue, classes |-> << >>],
      [metrics |-> [loc |-> 2, sloc |-> 1, n_classes |-> 0, n_methods |-> 0, n_functions |-> 1],
       classes |-> << >>],
      [metrics |-> [loc |-> 3, sloc |-> 2, n_classes |-> 1, n_methods |-> 1, n_functions |-> 0],
       classes |-> << [doc |-> Described, methods |-> << [doc |-> DocNone] >>,
                       attributes |-> << [doc |-> Blank] >>] >>],
      [metrics |-> [loc |-> 1, sloc |-> 0, n_classes |-> 1, n_methods |-> 1, n_functions |-> 0],
       classes |-> << [doc |-> DocNone, methods |-> << [doc |-> Described] >>,
                       attributes |-> << >>] >>] }

\* the imports of the modules of the aggregated lists
AggregateImports == { {}, { << "a" >> }, { << "b", ".", "a" >> } }

\* module lists with pairwise distinct paths
AggregateLists ==
    UNION { { [i \in DOMAIN ord |->
                 [path |-> ord[i], imports |-> imps[i],
                  metrics |-> shapes[i].metrics, classes |-> shapes[i].classes]] :
                imps \in [DOMAIN ord -> AggregateImports],
                shapes \in [DOMAIN ord -> ModuleShapes] } :
            ord \in UNION { Orderings(T) : T \in SUBSET PythonFiles } }

\* the order of the characters that paths are made of: '.' < '/' < 'a' < 'b'
PathRank(t) == IF t = ".py" THEN 1 ELSE IF t = "/" THEN 2 ELSE IF t = "a" THEN 3 ELSE 4

\* a < b for paths
RECURSIVE PathLess(_, _)
PathLess(a, b) ==
    IF b = << >> THEN FALSE
    ELSE IF a = << >> THEN TRUE
    ELSE IF a[1] = b[1] THEN PathLess(Tail(a), Tail(b))
    ELSE PathRank(a[1]) < PathRank(b[1])

\* sorted() is stable: a module goes behind every module whose path is not
\* greater than its own
RECURSIVE InsertByPath(_, _)
InsertByPath(module, sorted) ==
    IF sorted = << >> THEN << module >>
    ELSE IF PathLess(module.path, sorted[1].path) THEN << module >> \o sorted
    ELSE << sorted[1] >> \o InsertByPath(module, Tail(sorted))

\* faulty variant: the modules are taken in list order
SortedByPath_ListOrder(mods) == mods

\* metrics.py:93  sorted(modules, key=lambda module: module.path)
RECURSIVE SortedByPath(_)
SortedByPath(mods) ==
    IF mods = << >> THEN << >>
    ELSE InsertByPath(mods[Len(mods)], SortedByPath(SubSeq(mods, 1, Len(mods) - 1)))

\* metrics.py:99  Path(module.path).resolve().relative_to(...).name: the
\* last component of the path
RECURSIVE BaseName(_)
BaseName(path) ==
    IF \A i \in DOMAIN path : path[i] # "/" THEN path
    ELSE BaseName(Tail(path))

\* metrics.py:117, 125, 133  `doc and doc.strip()`
HasDoc(item) == ~item.doc.none /\ StripSpace(JoinLines(item.doc.lines)) # << >>

\* the methods / attributes of the classes of a module, class after class
RECURSIVE ItemsOf(_, _)
ItemsOf(classes, which) ==
    IF classes = << >> THEN << >>
    ELSE (IF which = "methods" THEN classes[1].methods ELSE classes[1].attributes)
            \o ItemsOf(Tail(classes), which)

DocumentedIn(items) == Len(SelectSeq(items, HasDoc))

\* metrics.py:137-145  the modules_overview record of one module
OverviewOf(module) ==
    [name |-> BaseName(module.path), loc |-> module.metrics.loc, sloc |-> module.metrics.sloc,
     n_classes |-> module.metrics.n_classes, n_methods |-> module.metrics.n_methods,
     n_functions |-> module.metrics.n_functions,
     n_attributes |-> Len(ItemsOf(module.classes, "attributes"))]

\* metrics.py:147-155  the module_stats record of one module
StatsOf(module) ==
    [name |-> BaseName(module.path), sloc |-> module.metrics.sloc,
     n_classes |-> module.metrics.n_classes, n_methods |-> module.metrics.n_methods,
     n_functions |-> module.metrics.n_functions,
     total_items |-> Len(module.classes) + Len(ItemsOf(module.classes, "methods"))
                        + Len(ItemsOf(module.classes, "attributes")),
     documented_items |-> DocumentedIn(module.classes)
                        + DocumentedIn(ItemsOf(module.classes, "methods"))
                        + DocumentedIn(ItemsOf(module.classes, "attributes"))]

\* the classes of the measured modules, module after module
RECURSIVE ClassesOf(_)
ClassesOf(mods) == IF mods = << >> THEN << >> ELSE mods[1].classes \o ClassesOf(Tail(mods))

\* metrics.py:54-165  repository_metrics(modules, repository)
RepositoryMetricsOf(mods) ==
    LET measured == SelectSeq(SortedByPath(mods), LAMBDA module : module.metrics # NoValue)
        classes == ClassesOf(measured)
        methods == ItemsOf(classes, "methods")
        attributes == ItemsOf(classes, "attributes")
    IN  [loc |-> Sum([i \in DOMAIN measured |-> measured[i].metrics.loc]),
         sloc |-> Sum([i \in DOMAIN measured |-> measured[i].metrics.sloc]),
         module_stats |-> [i \in DOMAIN measured |-> StatsOf(measured[i])],
         modules_overview |-> [i \in DOMAIN measured |-> OverviewOf(measured[i])],
         class_percent |-> Percentage(DocumentedIn(classes), Len(classes)),
         method_percent |-> Percentage(DocumentedIn(methods), Len(methods)),
         attribute_percent |-> Percentage(DocumentedIn(attributes), Len(attributes))]

InitAggregate ==
    /\ pc = "map"
    /\ framework = "python"
    /\ modules \in AggregateLists
    /\ paths = << >>
    /\ dep_map = << >>
    /\ count = 0 /\ in_block = FALSE /\ loc = 0 /\ metrics = NoValue
    /\ PipelineIdle /\ NumsIdle /\ HotspotsIdle

\* report.py:47  statistics = repository_metrics(modules, repository)
CallRepositoryMetrics ==
    /\ pc = "mapped"
    /\ call' = [fn |-> "repository_metrics", modules |-> modules]
    /\ result' = RepositoryMetricsOf(modules)
    /\ pc' = "measured"
    /\ UNCHANGED << scanVars, loopVars, pipelineVars, resolverVars, slocVars, hotspotVars >>

NextAggregate == MapDependencies \/ CallRepositoryMetrics

SpecAggregate == InitAggregate /\ [][NextAggregate]_vars

Measured == pc = "measured" /\ call.fn = "repository_metrics"

\* the module list in every order
Reorderings(mods) ==
    { [i \in DOMAIN mods |-> mods[order[i]]] : order \in Orderings(DOMAIN mods) }

\* C28: for a module list with pairwise distinct paths, repository_metrics
\* and dependencies_map return the same result for every permutation of
\* the list.
C28_OrderOfModulesIrrelevant ==
    Measured =>
        \A other \in Reorderings(modules) :
            /\ RepositoryMetricsOf(other) = result
            /\ DependenciesMapOf(other, framework) = dep_map

\* three measured modules given in descending order of path, with a
\* dependency between two of them
C28_Witness ==
    /\ Measured
    /\ Len(modules) = 3
    /\ PathLess(modules[3].path, modules[2].path)
    /\ PathLess(modules[2].path, modules[1].path)
    /\ Len(result.module_stats) = 3
    /\ \E src \in DOMAIN dep_map : dep_map[src] # {}

Names(records) == [i \in DOMAIN records |-> records[i].name]
Distinct(s) == \A i, j \in DOMAIN s : i # j => s[i] # s[j]

\* C30: for a module list with pairwise distinct paths no two records of
\* modules_overview, and no two records of module_stats, carry the same
\* name.
C30_RecordNamesDistinct ==
    Measured =>
        /\ Distinct(Names(result.modules_overview))
        /\ Distinct(Names(result.module_stats))

(***************************************************************************)
(* _sloc_csharp on sources without string literals, made of sample lines:  *)
(* the lines consumed so far are kept, so that what the counter did can be *)
(* compared with the comments the lines really hold.                       *)
(***************************************************************************)
CommentSampleLines ==
    { << >>,
      << "x" >>,
      LineComment \o << "x" >>,
      BlockOpen \o << "x" >>,
      << "x" >> \o BlockClose,
      BlockOpen \o << "x" >> \o BlockClose,
      BlockOpen \o BlockClose \o << " " >> \o BlockOpen \o BlockClose,
      BlockOpen \o BlockClose \o << " " >> \o BlockOpen,
      BlockClose \o << "x" >> }

InitSlocCsharp ==
    /\ pc = "count"
    /\ framework = "csharp"
    /\ count = 0
    /\ in_block = FALSE
    /\ loc = 0
    /\ metrics = NoValue
    /\ call = [fn |-> "_sloc_csharp", lines |-> << >>]
    /\ result = NoValue
    /\ modules = << >>
    /\ PipelineIdle /\ ResolverIdle /\ HotspotsIdle

\* metrics.py:232-279  _sloc_csharp consumes the next line of src
CountCsharpLine ==
    /\ pc = "count"
    /\ loc < MaxLines
    /\ \E line \in CommentSampleLines :
          LET r == SlocCsharpLine(line, count, in_block)
          IN  /\ count' = r.count
              /\ in_block' = r.in_block
              /\ call' = [call EXCEPT !.lines = Append(@, line)]
    /\ loc' = loc + 1
    /\ UNCHANGED << pc, framework, metrics, result >>
    /\ UNCHANGED << scanVars, loopVars, pipelineVars, resolverVars, hotspotVars >>

NextSlocCsharp == CountCsharpLine \/ ReturnMetrics

SpecSlocCsharp == InitSlocCsharp /\ [][NextSlocCsharp]_vars

\* the comments a line really holds, read from position i on: block says
\* whether a block comment is open, code whether a character outside every
\* comment has been met
RECURSIVE Lex(_, _, _, _)
Lex(line, i, block, code) ==
    IF i > Len(line) THEN [block |-> block, code |-> code]
    ELSE IF block
    THEN IF StartsWith(SubSeq(line, i, Len(line)), BlockClose)
         THEN Lex(line, i + 2, FALSE, code)
         ELSE Lex(line, i + 1, TRUE, code)
    ELSE IF StartsWith(SubSeq(line, i, Len(line)), LineComment)
    THEN [block |-> FALSE, code |-> code]
    ELSE IF StartsWith(SubSeq(line, i, Len(line)), BlockOpen)
    THEN Lex(line, i + 2, TRUE, code)
    ELSE Lex(line, i + 1, FALSE, code \/ line[i] # " ")

\* a block comment is open after the given lines
RECURSIVE OpenAfter(_)
OpenAfter(lines) ==
    IF lines = << >> THEN FALSE
    ELSE Lex(lines[Len(lines)], 1, OpenAfter(SubSeq(lines, 1, Len(lines) - 1)), FALSE).block

\* the whole non-blank content of the line lies inside comments
CommentOnly(line, block) == Strip(line) # << >> /\ ~Lex(line, 1, block, FALSE).code

\* C23: the C# counter does not count a line whose whole non-blank content
\* lies inside comments ('//' text, text inside an open block, one or more
\* complete or opening block comments), and after each line in_block is
\* true exactly when a '/*' opened on or before that line is not closed.
C23_CommentLinesNotCounted ==
    [][ (call.fn = "_sloc_csharp" /\ loc' = loc + 1) =>
            /\ CommentOnly(call'.lines[Len(call'.lines)], OpenAfter(call.lines))
                  => count' = count
            /\ in_block' = OpenAfter(call'.lines) ]_vars

(***************************************************************************)
(* The loops of _normalize_document and _format_block_text (python.py),    *)
(* one iteration per step.  idx and idx_local are the 0-based indexes of   *)
(* the code; result.out is the list `out`; consumed records, in order, the *)
(* index of every line an iteration has passed.                            *)
(***************************************************************************)
\* the lines that drive the loops: text, blank, header, item, continuation
LoopLines ==
    { << "a" >>,
      << >>,
      << "A", "r", "g", "s", ":" >>,
      << " ", " ", " ", " ", "a", ":", " ", "-", " ", "b" >>,
      << " ", " ", " ", " ", " ", " ", "c" >> }

\* python.py:177-178  lines = inspect.cleandoc(doc).splitlines()
LoopTexts == { Cleandoc(ls) : ls \in UNION { [1..k -> LoopLines] : k \in 1..MaxLines } }

InitNormalizeLoop ==
    /\ pc = "outer"
    /\ \E lines \in LoopTexts : call = [fn |-> "_normalize_document", lines |-> lines]
    /\ result = [out |-> << >>]
    /\ files = << >> /\ fails = {} /\ attempted = << >> /\ diagnostics = 0 /\ stages = << >>
    /\ idx = 0
    /\ modules = << >>
    /\ ScanIdle /\ LoopIdle
    /\ ResolverIdle /\ SlocIdle /\ HotspotsIdle

\* lines[i] and num_lines of the code
LineAt(i) == call.lines[i + 1]
NumLines == Len(call.lines)

\* python.py:194-197  the line is a section header: the block follows
OuterHeader ==
    /\ pc = "outer"
    /\ idx < NumLines
    /\ Strip(LineAt(idx)) \in HeaderKeys
    /\ result' = [out |-> Append(result.out, HeadersMap(Strip(LineAt(idx))))]
    /\ consumed' = Append(consumed, idx)
    /\ idx' = idx + 1
    /\ idx_local' = idx + 1
    /\ pc' = "block"
    /\ UNCHANGED << files, fails, modules, attempted, diagnostics, stages, call, depth >>
    /\ UNCHANGED << scanVars, resolverVars, slocVars, hotspotVars >>

\* python.py:243-247  the condition of the block loop
InBlock ==
    /\ idx_local < NumLines
    /\ (StartsWith(LineAt(idx_local), BlockIndent) \/ Strip(LineAt(idx_local)) = << >>)

\* the indexes from..(to - 1), in ascending order
IndexRun(from, to) == [k \in 1..(to - from) |-> from + k - 1]

\* faulty variant: after an item the cursor moves to the next line, its
\* continuation lines are read again
BlockStep_NextLine ==
    /\ pc = "block"
    /\ InBlock
    /\ LET cursor == LineAt(idx_local)
           cont == Continuation(idx_local + 2, Indent(cursor), call.lines)
       IN  IF Strip(cursor) = << >>
           THEN /\ consumed' = Append(consumed, idx_local)
                /\ UNCHANGED result
           ELSE IF Contains(cursor, Colon) /\ FirstAt(cursor, Colon) > 1
           THEN /\ result' = [out |-> Append(result.out, FormatItem(cursor, cont.extra))]
                /\ consumed' = consumed \o IndexRun(idx_local, cont.jdx - 1)
           ELSE /\ result' = [out |-> Append(result.out,
                                 << "-", " " >> \o RemoveAll(Strip(cursor), << "-", " " >>))]
                /\ consumed' = Append(consumed, idx_local)
    /\ idx_local' = idx_local + 1
    /\ UNCHANGED << files, fails, idx, modules, attempted, diagnostics, stages, call, depth, pc >>
    /\ UNCHANGED << scanVars, resolverVars, slocVars, hotspotVars >>

\* python.py:243-291  one iteration of the block loop; the inner loop over
\* the continuation lines of an item (python.py:266-280) runs within it
BlockStep ==
    /\ pc = "block"
    /\ InBlock
    /\ LET cursor == LineAt(idx_local)
           cont == Continuation(idx_local + 2, Indent(cursor), call.lines)
       IN  IF Strip(cursor) = << >>
           THEN /\ idx_local' = idx_local + 1
                /\ consumed' = Append(consumed, idx_local)
                /\ UNCHANGED result
           ELSE IF Contains(cursor, Colon) /\ FirstAt(cursor, Colon) > 1
           THEN /\ result' = [out |-> Append(result.out, FormatItem(cursor, cont.extra))]
                /\ idx_local' = cont.jdx - 1
                /\ consumed' = consumed \o IndexRun(idx_local, cont.jdx - 1)
           ELSE /\ result' = [out |-> Append(result.out,
                                 << "-", " " >> \o RemoveAll(Strip(cursor), << "-", " " >>))]
                /\ idx_local' = idx_local + 1
                /\ consumed' = Append(consumed, idx_local)
    /\ UNCHANGED << files, fails, idx, modules, attempted, diagnostics, stages, call, depth, pc >>
    /\ UNCHANGED << scanVars, resolverVars, slocVars, hotspotVars >>

\* python.py:293, 199-203  return idx_local, items; out.append('')
BlockReturn ==
    /\ pc = "block"
    /\ ~InBlock
    /\ idx' = idx_local
    /\ result' = [out |-> Append(result.out, << >>)]
    /\ pc' = "outer"
    /\ UNCHANGED << files, fails, modules, attempted, diagnostics, stages, call >>
    /\ UNCHANGED << scanVars, loopVars, resolverVars, slocVars, hotspotVars >>

\* python.py:204-209  a line outside the sections goes through the fixers
OuterLine ==
    /\ pc = "outer"
    /\ idx < NumLines
    /\ Strip(LineAt(idx)) \notin HeaderKeys
    /\ result' = [out |-> Append(result.out, FixAsterisk(FixBullets(LineAt(idx))))]
    /\ consumed' = Append(consumed, idx)
    /\ idx' = idx + 1
    /\ UNCHANGED << files, fails, modules, attempted, diagnostics, stages, call, pc >>
    /\ UNCHANGED << scanVars, depth, idx_local, resolverVars, slocVars, hotspotVars >>

\* python.py:190, 211  the loop condition fails: return '\n'.join(out)
OuterExit ==
    /\ pc = "outer"
    /\ idx >= NumLines
    /\ pc' = "returned"
    /\ UNCHANGED << files, fails, idx, modules, attempted, diagnostics, stages, call, result >>
    /\ UNCHANGED << scanVars, loopVars, resolverVars, slocVars, hotspotVars >>

NextNormalizeLoop == OuterHeader \/ BlockStep \/ BlockReturn \/ OuterLine \/ OuterExit

SpecNormalizeLoop == InitNormalizeLoop /\ [][NextNormalizeLoop]_vars

\* the loops run in the thread of the caller with nothing to wait for
FairSpecNormalizeLoop == SpecNormalizeLoop /\ WF_vars(NextNormalizeLoop)

Normalizing == call.fn = "_normalize_document" /\ pc \in { "outer", "block", "returned" }

\* C29: the normalizer terminates: the line index strictly increases on
\* every iteration of the outer loop and of the block loop, never exceeds
\* the number of lines, and every input line is consumed exactly once.
C29_NormalizerTerminates ==
    /\ [][Normalizing =>
            /\ (pc = "outer" /\ pc' # "returned") => idx' > idx
            /\ (pc = "block" /\ pc' = "block") => idx_local' > idx_local
            /\ (pc = "block" /\ pc' = "outer") => idx' >= idx]_vars
    /\ [](Normalizing =>
            /\ idx <= NumLines
            /\ idx_local <= NumLines
            /\ \A i, j \in DOMAIN consumed : i # j => consumed[i] # consumed[j])
    /\ []((Normalizing /\ pc = "returned") => consumed = IndexRun(0, NumLines))
    /\ <>(pc = "returned")

\* a header, an item with a continuation line, and a line after the block
C29_Witness ==
    /\ Normalizing /\ pc = "returned"
    /\ NumLines = 4
    /\ Strip(LineAt(0)) \in HeaderKeys
    /\ StartsWith(LineAt(1), BlockIndent)
    /\ Indent(LineAt(2)) > Indent(LineAt(1))
    /\ Strip(LineAt(3)) # << >>
    /\ consumed = << 0, 1, 2, 3 >>

====
